---- MODULE Spec2Model ----
(***************************************************************************)
(* Model of the MasterG translation proxy (backend/proxy): the glossary    *)
(* term protector (glossary.py) and the request loop of the persistent     *)
(* servers (indictrans2_server.py, nllb_server.py).                        *)
(*                                                                         *)
(* Text is a sequence of Unicode code points (Python str): "SCI0" is       *)
(* <<83,67,73,48>>, the Devanagari letters are 2304..2431.  Positions in   *)
(* operators named after Python slices are 0-based, as in the source.      *)
(***************************************************************************)
EXTENDS Integers, Sequences, FiniteSets, TLC

(***************************************************************************)
(* Python str primitives                                                   *)
(***************************************************************************)
Min(a, b) == IF a < b THEN a ELSE b

Max(a, b) == IF a > b THEN a ELSE b

\* str.lower() on one code point: ASCII capitals fold, everything else in
\* the model's alphabet (digits, space, Devanagari) has no case.
Lower(c) == IF c >= 65 /\ c <= 90 THEN c + 32 ELSE c

\* A function with domain 1..n as an explicit list
AsList(f) == f \o <<>>

\* str.lower()
LowerStr(s) == AsList([i \in 1..Len(s) |-> Lower(s[i])])

\* s[a:b] for 0 <= a, 0 <= b (Python clamps both to len(s))
Slice(s, a, b) ==
  LET hi == Min(b, Len(s))
  IN IF a >= hi THEN <<>> ELSE SubSeq(s, a + 1, hi)

\* s[i:].startswith(p), i 0-based
StartsWithAt(s, p, i) ==
  /\ i + Len(p) <= Len(s)
  /\ \A k \in 1..Len(p) : s[i + k] = p[k]

\* p in s
Contains(s, p) == \E i \in 0..(Len(s) - Len(p)) : StartsWithAt(s, p, i)

\* The least element of a non-empty set of integers
Least(S) == CHOOSE x \in S : \A y \in S : x <= y

\* s.find(p, from): the least i >= from with s[i:].startswith(p), or -1
FindFrom(s, p, from) ==
  LET hits == {i \in from..(Len(s) - Len(p)) : StartsWithAt(s, p, i)}
  IN IF hits = {} THEN -1 ELSE Least(hits)

\* s.replace(old, new): every non-overlapping occurrence, left to right
\* (old is never empty here)
RECURSIVE ReplaceAllFrom(_, _, _, _)
ReplaceAllFrom(s, old, new, from) ==
  LET i == FindFrom(s, old, from)
  IN IF i = -1 THEN Slice(s, from, Len(s))
     ELSE Slice(s, from, i) \o new \o ReplaceAllFrom(s, old, new, i + Len(old))

ReplaceAll(s, old, new) == ReplaceAllFrom(s, old, new, 0)

\* s.replace(old, new, 1)
ReplaceFirst(s, old, new) ==
  LET i == FindFrom(s, old, 0)
  IN IF i = -1 THEN s
     ELSE Slice(s, 0, i) \o new \o Slice(s, i + Len(old), Len(s))

\* str(n) for n >= 0
RECURSIVE Str(_)
Str(n) == IF n < 10 THEN <<48 + n>> ELSE Str(n \div 10) \o <<48 + (n % 10)>>

\* "SCI"
SCI == <<83, 67, 73>>

(***************************************************************************)
(* glossary.py: the glossary table                                         *)
(***************************************************************************)
\* The key/value pairs of the dict display, in source order; the trailing
\* comment gives the source line and the key.
GlossaryLiteral ==
   <<
      <<<<112,104,111,116,111,115,121,110,116,104,101,115,105,115>>, <<2346,2381,2352,2325,2366,2358,32,2360,2306,2358,2381,2354,2375,2359,2339>>>>,  \* 12: photosynthesis
      <<<<99,104,108,111,114,111,112,104,121,108,108>>, <<2325,2381,2354,2379,2352,2379,2347,2367,2354>>>>,  \* 13: chlorophyll
      <<<<99,97,114,98,111,110,32,100,105,111,120,105,100,101>>, <<2325,2366,2352,2381,2348,2344,32,2337,2366,2311,2321,2325,2381,2360,2366,2311,2337>>>>,  \* 14: carbon dioxide
      <<<<111,120,121,103,101,110>>, <<2321,2325,2381,2360,2368,2332,2344>>>>,  \* 15: oxygen
      <<<<103,108,117,99,111,115,101>>, <<2327,2381,2354,2370,2325,2379,2332>>>>,  \* 16: glucose
      <<<<97,116,112>>, <<2319,2335,2368,2346,2368>>>>,  \* 17: atp
      <<<<100,110,97>>, <<2337,2368,2319,2344,2319>>>>,  \* 18: dna
      <<<<114,110,97>>, <<2310,2352,2319,2344,2319>>>>,  \* 19: rna
      <<<<99,101,108,108>>, <<2325,2379,2358,2367,2325,2366>>>>,  \* 20: cell
      <<<<109,105,116,111,99,104,111,110,100,114,105,97>>, <<2350,2366,2311,2335,2379,2325,2377,2344,2381,2337,2381,2352,2367,2351,2366>>>>,  \* 21: mitochondria
      <<<<110,117,99,108,101,117,115>>, <<2325,2375,2306,2342,2381,2352,2325>>>>,  \* 22: nucleus
      <<<<99,104,114,111,109,111,115,111,109,101>>, <<2327,2369,2339,2360,2370,2340,2381,2352>>>>,  \* 23: chromosome
      <<<<103,101,110,101>>, <<2332,2368,2344>>>>,  \* 24: gene
      <<<<112,114,111,116,101,105,110>>, <<2346,2381,2352,2379,2335,2368,2344>>>>,  \* 25: protein
      <<<<101,110,122,121,109,101>>, <<2319,2306,2332,2366,2311,2350>>>>,  \* 26: enzyme
      <<<<114,101,115,112,105,114,97,116,105,111,110>>, <<2358,2381,2357,2360,2344>>>>,  \* 27: respiration
      <<<<100,105,103,101,115,116,105,111,110>>, <<2346,2366,2330,2344>>>>,  \* 28: digestion
      <<<<109,101,116,97,98,111,108,105,115,109>>, <<2330,2351,2366,2346,2330,2351>>>>,  \* 29: metabolism
      <<<<109,111,108,101,99,117,108,101>>, <<2309,2339,2369>>>>,  \* 32: molecule
      <<<<97,116,111,109>>, <<2346,2352,2350,2366,2339,2369>>>>,  \* 33: atom
      <<<<101,108,101,109,101,110,116>>, <<2340,2340,2381,2357>>>>,  \* 34: element
      <<<<99,111,109,112,111,117,110,100>>, <<2351,2380,2327,2367,2325>>>>,  \* 35: compound
      <<<<114,101,97,99,116,105,111,110>>, <<2309,2349,2367,2325,2381,2352,2367,2351,2366>>>>,  \* 36: reaction
      <<<<99,97,116,97,108,121,115,116>>, <<2313,2340,2381,2346,2381,2352,2375,2352,2325>>>>,  \* 37: catalyst
      <<<<97,99,105,100>>, <<2309,2350,2381,2354>>>>,  \* 38: acid
      <<<<98,97,115,101>>, <<2325,2381,2359,2366,2352>>>>,  \* 39: base
      <<<<115,97,108,116>>, <<2354,2357,2339>>>>,  \* 40: salt
      <<<<115,111,108,117,116,105,111,110>>, <<2357,2367,2354,2351,2344>>>>,  \* 41: solution
      <<<<109,105,120,116,117,114,101>>, <<2350,2367,2358,2381,2352,2339>>>>,  \* 42: mixture
      <<<<104,121,100,114,111,103,101,110>>, <<2361,2366,2311,2337,2381,2352,2379,2332,2344>>>>,  \* 43: hydrogen
      <<<<110,105,116,114,111,103,101,110>>, <<2344,2366,2311,2335,2381,2352,2379,2332,2344>>>>,  \* 44: nitrogen
      <<<<115,111,100,105,117,109>>, <<2360,2379,2337,2367,2351,2350>>>>,  \* 45: sodium
      <<<<99,97,108,99,105,117,109>>, <<2325,2376,2354,2381,2358,2367,2351,2350>>>>,  \* 46: calcium
      <<<<102,111,114,99,101>>, <<2348,2354>>>>,  \* 49: force
      <<<<101,110,101,114,103,121>>, <<2314,2352,2381,2332,2366>>>>,  \* 50: energy
      <<<<118,101,108,111,99,105,116,121>>, <<2357,2375,2327>>>>,  \* 51: velocity
      <<<<97,99,99,101,108,101,114,97,116,105,111,110>>, <<2340,2381,2357,2352,2339>>>>,  \* 52: acceleration
      <<<<109,111,109,101,110,116,117,109>>, <<2360,2306,2357,2375,2327>>>>,  \* 53: momentum
      <<<<103,114,97,118,105,116,121>>, <<2327,2369,2352,2369,2340,2381,2357,2366,2325,2352,2381,2359,2339>>>>,  \* 54: gravity
      <<<<102,114,105,99,116,105,111,110>>, <<2328,2352,2381,2359,2339>>>>,  \* 55: friction
      <<<<112,114,101,115,115,117,114,101>>, <<2342,2348,2366,2357>>>>,  \* 56: pressure
      <<<<116,101,109,112,101,114,97,116,117,114,101>>, <<2340,2366,2346,2350,2366,2344>>>>,  \* 57: temperature
      <<<<104,101,97,116>>, <<2314,2359,2381,2350,2366>>>>,  \* 58: heat
      <<<<108,105,103,104,116>>, <<2346,2381,2352,2325,2366,2358>>>>,  \* 59: light
      <<<<115,111,117,110,100>>, <<2343,2381,2357,2344,2367>>>>,  \* 60: sound
      <<<<119,97,118,101>>, <<2340,2352,2306,2327>>>>,  \* 61: wave
      <<<<101,108,101,99,116,114,105,99,105,116,121>>, <<2357,2367,2342,2381,2351,2369,2340>>>>,  \* 62: electricity
      <<<<109,97,103,110,101,116,105,115,109>>, <<2330,2369,2306,2348,2325,2340,2381,2357>>>>,  \* 63: magnetism
      <<<<101,113,117,97,116,105,111,110>>, <<2360,2350,2368,2325,2352,2339>>>>,  \* 66: equation
      <<<<102,111,114,109,117,108,97>>, <<2360,2370,2340,2381,2352>>>>,  \* 67: formula
      <<<<118,97,114,105,97,98,108,101>>, <<2330,2352>>>>,  \* 68: variable
      <<<<99,111,110,115,116,97,110,116>>, <<2309,2330,2352>>>>,  \* 69: constant
      <<<<102,117,110,99,116,105,111,110>>, <<2347,2354,2344>>>>,  \* 70: function
      <<<<100,101,114,105,118,97,116,105,118,101>>, <<2309,2357,2325,2354,2332>>>>,  \* 71: derivative
      <<<<105,110,116,101,103,114,97,108>>, <<2360,2350,2366,2325,2354,2344>>>>,  \* 72: integral
      <<<<97,110,103,108,101>>, <<2325,2379,2339>>>>,  \* 73: angle
      <<<<116,114,105,97,110,103,108,101>>, <<2340,2381,2352,2367,2349,2369,2332>>>>,  \* 74: triangle
      <<<<99,105,114,99,108,101>>, <<2357,2371,2340,2381,2340>>>>,  \* 75: circle
      <<<<115,113,117,97,114,101>>, <<2357,2352,2381,2327>>>>,  \* 76: square
      <<<<114,101,99,116,97,110,103,108,101>>, <<2310,2351,2340>>>>,  \* 77: rectangle
      <<<<97,114,101,97>>, <<2325,2381,2359,2375,2340,2381,2352,2347,2354>>>>,  \* 78: area
      <<<<112,101,114,105,109,101,116,101,114>>, <<2346,2352,2367,2350,2366,2346>>>>,  \* 79: perimeter
      <<<<118,111,108,117,109,101>>, <<2310,2351,2340,2344>>>>,  \* 80: volume
      <<<<100,101,102,105,110,105,116,105,111,110>>, <<2346,2352,2367,2349,2366,2359,2366>>>>,  \* 83: definition
      <<<<101,120,97,109,112,108,101>>, <<2313,2342,2366,2361,2352,2339>>>>,  \* 84: example
      <<<<99,111,110,99,101,112,116>>, <<2309,2357,2343,2366,2352,2339,2366>>>>,  \* 85: concept
      <<<<112,114,105,110,99,105,112,108,101>>, <<2360,2367,2342,2381,2343,2366,2306,2340>>>>,  \* 86: principle
      <<<<116,104,101,111,114,121>>, <<2360,2367,2342,2381,2343,2366,2306,2340>>>>,  \* 87: theory
      <<<<108,97,119>>, <<2344,2367,2351,2350>>>>,  \* 88: law
      <<<<112,114,111,99,101,115,115>>, <<2346,2381,2352,2325,2381,2352,2367,2351,2366>>>>,  \* 89: process
      <<<<115,121,115,116,101,109>>, <<2340,2306,2340,2381,2352>>>>,  \* 90: system
      <<<<115,116,114,117,99,116,117,114,101>>, <<2360,2306,2352,2330,2344,2366>>>>,  \* 91: structure
      <<<<102,117,110,99,116,105,111,110>>, <<2325,2366,2352,2381,2351>>>>  \* 92: function
   >>

\* d[key] = value on an insertion-ordered dict kept as a sequence of
\* <<key, value>>: an existing key keeps its position and takes the value.
DictSet(d, key, value) ==
  IF \E i \in 1..Len(d) : d[i][1] = key
  THEN AsList([i \in 1..Len(d) |->
                 IF d[i][1] = key THEN <<key, value>> ELSE d[i]])
  ELSE Append(d, <<key, value>>)

\* The dict a display {k1: v1, k2: v2, ...} builds, as its items(): a key
\* stands where it first occurs and holds the value of its last occurrence.
DictFromPairs(pairs) ==
  LET firsts  == {i \in 1..Len(pairs) :
                    \A j \in 1..(i - 1) : pairs[j][1] # pairs[i][1]}
      nth(n)  == CHOOSE i \in firsts :
                   Cardinality({j \in firsts : j < i}) = n - 1
      final(k) == CHOOSE j \in 1..Len(pairs) :
                   /\ pairs[j][1] = k
                   /\ \A h \in (j + 1)..Len(pairs) : pairs[h][1] # k
  IN AsList([n \in 1..Cardinality(firsts) |->
               <<pairs[nth(n)][1], pairs[final(pairs[nth(n)][1])][2]>>])

\* ENGLISH_TO_HINDI_GLOSSARY.items()
ENGLISH_TO_HINDI_GLOSSARY == DictFromPairs(GlossaryLiteral)

\* {v: k for k, v in ENGLISH_TO_HINDI_GLOSSARY.items()}, as its items(): a
\* rendering that two terms share is one key and holds the later term
HINDI_TO_ENGLISH_GLOSSARY ==
  DictFromPairs(AsList([i \in 1..Len(ENGLISH_TO_HINDI_GLOSSARY) |->
                          <<ENGLISH_TO_HINDI_GLOSSARY[i][2],
                            ENGLISH_TO_HINDI_GLOSSARY[i][1]>>]))

\* d[key] for a key of d
Lookup(d, key) == d[CHOOSE i \in 1..Len(d) : d[i][1] = key][2]

(***************************************************************************)
(* glossary.py: create_placeholder, extract_and_replace_terms              *)
(***************************************************************************)
\* create_placeholder: f"SCI{index}" (the term is not used)
create_placeholder(term, idx) == SCI \o Str(idx)

\* sorted(items, key=lambda x: len(x[0]), reverse=True): longest key first,
\* items of equal key length keep their order (the sort is stable).  An item
\* stands after the items with a longer key and the earlier items with a key
\* as long.
SortByLenDesc(items) ==
  LET before(i) == {j \in 1..Len(items) :
                      \/ Len(items[j][1]) > Len(items[i][1])
                      \/ Len(items[j][1]) = Len(items[i][1]) /\ j < i}
  IN AsList([k \in 1..Len(items) |->
               items[CHOOSE i \in 1..Len(items) : Cardinality(before(i)) = k - 1]])

sorted_terms == SortByLenDesc(ENGLISH_TO_HINDI_GLOSSARY)

\* MatchesAt with the last letter of the term left out of the comparison
MatchesAtShort(term, s, i) ==
  /\ i + Len(term) - 1 <= Len(s)
  /\ \A k \in 1..(Len(term) - 1) : Lower(s[i + k]) = Lower(term[k])

\* re.compile(re.escape(term), re.IGNORECASE) matching at 0-based position i
MatchesAt(term, s, i) ==
  /\ i + Len(term) <= Len(s)
  /\ \A k \in 1..Len(term) : Lower(s[i + k]) = Lower(term[k])

\* list(pattern.finditer(s)) from position from on: the spans <<start, end>>
\* of the non-overlapping matches, leftmost first
RECURSIVE FindIter(_, _, _)
FindIter(term, s, from) ==
  LET hits == {i \in from..(Len(s) - Len(term)) : MatchesAt(term, s, i)}
  IN IF hits = {} THEN <<>>
     ELSE LET i == Least(hits)
          IN <<<<i, i + Len(term)>>>> \o FindIter(term, s, i + Len(term))

\* The "already replaced" test of the inner loop:
\* start > 0 and modified_text[max(0, start-5):end+5].startswith("SCI")
AlreadyReplaced(mt, start, end) ==
  /\ start > 0
  /\ StartsWithAt(Slice(mt, Max(0, start - 5), end + 5), SCI, 0)

\* modified_text[:start] + placeholder + modified_text[end:]
Splice(mt, start, end, placeholder) ==
  Slice(mt, 0, start) \o placeholder \o Slice(mt, end, Len(mt))

\* MatchIteration without "index += 1"
MatchIterationNoIncrement(st, english_term, hindi_term, span) ==
  IF AlreadyReplaced(st.modified_text, span[1], span[2]) THEN st
  ELSE LET placeholder == create_placeholder(english_term, st.index)
           mt == Splice(st.modified_text, span[1], span[2], placeholder)
       IN [modified_text |-> mt,
           text_lower    |-> LowerStr(mt),
           term_map      |-> DictSet(st.term_map, placeholder, hindi_term),
           index         |-> st.index]

\* One pass of the inner loop body on the loop state
\* st = [modified_text, text_lower, term_map, index].
MatchIteration(st, english_term, hindi_term, span) ==
  IF AlreadyReplaced(st.modified_text, span[1], span[2]) THEN st
  ELSE LET placeholder == create_placeholder(english_term, st.index)
           mt == Splice(st.modified_text, span[1], span[2], placeholder)
       IN [modified_text |-> mt,
           text_lower    |-> LowerStr(mt),
           term_map      |-> DictSet(st.term_map, placeholder, hindi_term),
           index         |-> st.index + 1]

RECURSIVE ForMatches(_, _, _, _)
ForMatches(st, english_term, hindi_term, ms) ==
  IF ms = <<>> THEN st
  ELSE ForMatches(MatchIteration(st, english_term, hindi_term, Head(ms)),
                  english_term, hindi_term, Tail(ms))

\* The terms at sorted_terms[i..] that match somewhere in text_lower
TermsMatching(text_lower, i) ==
  {j \in i..Len(sorted_terms) :
     \E k \in 0..Len(text_lower) : MatchesAt(sorted_terms[j][1], text_lower, k)}

\* The outer loop from sorted_terms[i] on; the matches of a term are found
\* once, in the text_lower the term's iteration starts with.  A term with
\* no match leaves the loop state as it is, so the loop goes from one
\* matching term to the next.
RECURSIVE ForTerms(_, _)
ForTerms(st, i) ==
  LET js == TermsMatching(st.text_lower, i)
  IN IF js = {} THEN st
     ELSE LET j == Least(js)
          IN ForTerms(ForMatches(st, sorted_terms[j][1], sorted_terms[j][2],
                                 FindIter(sorted_terms[j][1], st.text_lower, 0)),
                      j + 1)

ExtractStart(t) ==
  [modified_text |-> t, text_lower |-> LowerStr(t), term_map |-> <<>>, index |-> 0]

\* extract_and_replace_terms(text) = <<modified_text, term_map>>
extract_and_replace_terms(t) ==
  LET st == ForTerms(ExtractStart(t), 1)
  IN <<st.modified_text, st.term_map>>

(***************************************************************************)
(* glossary.py: restore_terms                                              *)
(***************************************************************************)
\* The transliterated prefix of restore_terms: "SCI" spelled in Devanagari,
\* U+090F U+0938 U+0938 U+0940 U+0906 U+0908
TRANSLIT == <<2319, 2360, 2360, 2368, 2310, 2312>>

\* A pattern item standing for the regular expression \s*
WS == -1

\* \s of the re module on str
IsSpace(c) ==
  c \in (9..13) \cup (28..32) \cup {133, 160, 5760, 8232, 8233, 8239, 8287, 12288}
        \cup (8192..8202)

\* \d within the model's alphabet
IsDigit(c) == c >= 48 /\ c <= 57

\* The end of the match of pat[k..] that starts at 0-based position i of s,
\* or -1; \s* is greedy and gives back.
RECURSIVE PatMatchEnd(_, _, _, _)
PatMatchEnd(pat, k, s, i) ==
  IF k > Len(pat) THEN i
  ELSE IF pat[k] = WS
       THEN LET more == IF i < Len(s) /\ IsSpace(s[i + 1])
                        THEN PatMatchEnd(pat, k, s, i + 1) ELSE -1
            IN IF more # -1 THEN more ELSE PatMatchEnd(pat, k + 1, s, i)
       ELSE IF i < Len(s) /\ s[i + 1] = pat[k]
            THEN PatMatchEnd(pat, k + 1, s, i + 1)
            ELSE -1

\* re.search(pattern, s) is not None
ReSearch(pat, s) == \E i \in 0..Len(s) : PatMatchEnd(pat, 1, s, i) # -1

\* re.sub(pattern, repl, s): every non-overlapping match, left to right
\* (no pattern here matches the empty string)
RECURSIVE ReSubFrom(_, _, _, _)
ReSubFrom(pat, repl, s, from) ==
  LET hits == {i \in from..Len(s) : PatMatchEnd(pat, 1, s, i) # -1}
  IN IF hits = {} THEN Slice(s, from, Len(s))
     ELSE LET i == Least(hits)
          IN Slice(s, from, i) \o repl
               \o ReSubFrom(pat, repl, s, PatMatchEnd(pat, 1, s, i))

ReSub(pat, repl, s) == ReSubFrom(pat, repl, s, 0)

\* re.search(r'(\d+)', placeholder).group(1): the first run of digits
\* (<<>> stands for no match)
RECURSIVE DigitRun(_, _)
DigitRun(s, i) ==
  IF i > Len(s) \/ ~IsDigit(s[i]) THEN <<>> ELSE <<s[i]>> \o DigitRun(s, i + 1)

RECURSIVE FirstDigitRun(_, _)
FirstDigitRun(s, i) ==
  IF i > Len(s) THEN <<>>
  ELSE IF IsDigit(s[i]) THEN DigitRun(s, i) ELSE FirstDigitRun(s, i + 1)

\* int(digits)
RECURSIVE IntOf(_, _)
IntOf(ds, n) ==
  IF n = 0 THEN 0 ELSE 10 * IntOf(ds, n - 1) + (ds[n] - 48)

\* The sort key of sorted_items: the number in the placeholder, else 999
SortKey(item) ==
  LET ds == FirstDigitRun(item[1], 1)
  IN IF ds = <<>> THEN 999 ELSE IntOf(ds, Len(ds))

\* sorted(term_map.items(), key=...): ascending, stable
RECURSIVE InsertByKey(_, _)
InsertByKey(sorted, item) ==
  IF sorted = <<>> THEN <<item>>
  ELSE IF SortKey(Head(sorted)) <= SortKey(item)
       THEN <<Head(sorted)>> \o InsertByKey(Tail(sorted), item)
       ELSE <<item>> \o sorted

RECURSIVE SortedItems(_, _)
SortedItems(m, n) ==
  IF n = 0 THEN <<>> ELSE InsertByKey(SortedItems(m, n - 1), m[n])

sorted_items(m) == SortedItems(m, Len(m))

\* First loop: result = result.replace(placeholder, target_term) for every
\* entry in insertion order
RECURSIVE ExactPass(_, _, _)
ExactPass(res, m, i) ==
  IF i > Len(m) THEN res
  ELSE ExactPass(ReplaceAll(res, m[i][1], m[i][2]), m, i + 1)

\* rf'<prefix>\s*{num}'
NumberedPattern(num) == TRANSLIT \o <<WS>> \o num

\* The spaced version: \s* after the 2nd, the 4th and the 6th letter of the
\* prefix, then {num}
SpacedPattern(num) ==
  <<2319, 2360, WS, 2360, 2368, WS, 2310, 2312, WS>> \o num

\* any(f"<prefix>{i}" in result for i in range(10) if str(i) != num)
OtherNumberContext(res, num) ==
  \E i \in 0..9 : Str(i) # num /\ Contains(res, TRANSLIT \o Str(i))

\* Which way one iteration of the second loop goes
EntryBranch(res, item) ==
  LET num == FirstDigitRun(item[1], 1)
  IN IF Contains(res, item[1]) THEN "exact"
     ELSE IF ReSearch(NumberedPattern(num), res) THEN "numbered"
     ELSE IF ReSearch(SpacedPattern(num), res) THEN "spaced"
     ELSE IF Contains(res, TRANSLIT) /\ ~OtherNumberContext(res, num)
          THEN "generic"
     ELSE "none"

\* One iteration of the second loop
RestoreEntry(res, item) ==
  LET num == FirstDigitRun(item[1], 1)
      b   == EntryBranch(res, item)
  IN CASE b = "exact"    -> ReplaceAll(res, item[1], item[2])
       [] b = "numbered" -> ReSub(NumberedPattern(num), item[2], res)
       [] b = "spaced"   -> ReSub(SpacedPattern(num), item[2], res)
       [] b = "generic"  -> ReplaceFirst(res, TRANSLIT, item[2])
       [] OTHER          -> res

RECURSIVE ForEntries(_, _, _)
ForEntries(res, items, i) ==
  IF i > Len(items) THEN res
  ELSE ForEntries(RestoreEntry(res, items[i]), items, i + 1)

\* restore_terms(translated_text, term_map)
restore_terms(t, m) == ForEntries(ExactPass(t, m, 1), sorted_items(m), 1)

(***************************************************************************)
(* indictrans2_server.py, nllb_server.py: the text functions               *)
(***************************************************************************)
\* str.strip()
Strip(s) ==
  LET keep == {i \in 1..Len(s) : ~IsSpace(s[i])}
  IN IF keep = {} THEN <<>>
     ELSE SubSeq(s, Least(keep), CHOOSE x \in keep : \A y \in keep : y <= x)

\* The 0-based end of the run of characters of s from position i on that
\* are in the set cs
RECURSIVE RunEnd(_, _, _)
RunEnd(s, i, cs) ==
  IF i < Len(s) /\ s[i + 1] \in cs THEN RunEnd(s, i + 1, cs) ELSE i

\* The 0-based end of the run of \s characters of s from position i on
RECURSIVE SpaceEnd(_, _)
SpaceEnd(s, i) ==
  IF i < Len(s) /\ IsSpace(s[i + 1]) THEN SpaceEnd(s, i + 1) ELSE i

\* The 0-based end of the run of characters of s from position i on that
\* are not c
RECURSIVE UntilChar(_, _, _)
UntilChar(s, i, c) ==
  IF i < Len(s) /\ s[i + 1] # c THEN UntilChar(s, i + 1, c) ELSE i

\* ^ with re.MULTILINE at 0-based position i
AtLineStart(s, i) == i = 0 \/ s[i] = 10

\* $ with re.MULTILINE at 0-based position i
AtLineEnd(s, i) == i = Len(s) \/ s[i + 1] = 10

\* The substitutions of strip_markdown, in the order of the source.  Each
\* is a rule: MdMatch(rule, s, i) is <<end, replacement>> for the match of
\* the rule's pattern that starts at 0-based position i of s, or <<-1>>.
MdRules ==
  <<"header", "bold_star", "italic_star", "bold_under", "italic_under",
    "rule_dash", "rule_equal", "code_block", "code_span", "link", "newlines">>

NoMatch == <<-1>>

\* <d> ([^c]+) <d> -> \1, d the delimiter, c its character
Delimited(s, i, d, c) ==
  LET a == i + Len(d)
      b == UntilChar(s, a, c)
  IN IF StartsWithAt(s, d, i) /\ b > a /\ StartsWithAt(s, d, b)
     THEN <<b + Len(d), Slice(s, a, b)>>
     ELSE NoMatch

\* ^ccc+\s*$ -> '' (c is "-" or "="): \s* is greedy and gives back until
\* the end of a line is reached
HorizontalRule(s, i, c) ==
  LET a == RunEnd(s, i, {c})
      b == SpaceEnd(s, a)
      ends == {e \in a..b : AtLineEnd(s, e)}
  IN IF AtLineStart(s, i) /\ a - i >= 3 /\ ends # {}
     THEN <<CHOOSE e \in ends : \A f \in ends : f <= e, <<>>>>
     ELSE NoMatch

\* ^#{1,6}\s+ -> ''
Header(s, i) ==
  LET a == RunEnd(s, i, {35})
      b == SpaceEnd(s, a)
  IN IF AtLineStart(s, i) /\ a - i >= 1 /\ a - i <= 6 /\ b > a
     THEN <<b, <<>>>>
     ELSE NoMatch

\* ```[^\n]*\n(.*?)``` with re.DOTALL -> \1
CodeBlock(s, i) ==
  LET fence == <<96, 96, 96>>
      a == UntilChar(s, i + 3, 10)
      b == FindFrom(s, fence, a + 1)
  IN IF StartsWithAt(s, fence, i) /\ a < Len(s) /\ b # -1
     THEN <<b + 3, Slice(s, a + 1, b)>>
     ELSE NoMatch

\* \[([^\]]+)\]\([^\)]+\) -> \1
Link(s, i) ==
  LET a == UntilChar(s, i + 1, 93)
      b == UntilChar(s, a + 2, 41)
  IN IF /\ StartsWithAt(s, <<91>>, i)
        /\ a > i + 1
        /\ StartsWithAt(s, <<93, 40>>, a)
        /\ b > a + 2
        /\ b < Len(s)
     THEN <<b + 1, Slice(s, i + 1, a)>>
     ELSE NoMatch

\* \n{3,} -> \n\n
Newlines(s, i) ==
  LET a == RunEnd(s, i, {10})
  IN IF a - i >= 3 THEN <<a, <<10, 10>>>> ELSE NoMatch

MdMatch(rule, s, i) ==
  CASE rule = "header"       -> Header(s, i)
    [] rule = "bold_star"    -> Delimited(s, i, <<42, 42>>, 42)
    [] rule = "italic_star"  -> Delimited(s, i, <<42>>, 42)
    [] rule = "bold_under"   -> Delimited(s, i, <<95, 95>>, 95)
    [] rule = "italic_under" -> Delimited(s, i, <<95>>, 95)
    [] rule = "rule_dash"    -> HorizontalRule(s, i, 45)
    [] rule = "rule_equal"   -> HorizontalRule(s, i, 61)
    [] rule = "code_block"   -> CodeBlock(s, i)
    [] rule = "code_span"    -> Delimited(s, i, <<96>>, 96)
    [] rule = "link"         -> Link(s, i)
    [] OTHER                 -> Newlines(s, i)

\* re.sub of one rule of strip_markdown from 0-based position from on
RECURSIVE MdSubFrom(_, _, _)
MdSubFrom(rule, s, from) ==
  LET hits == {i \in from..(Len(s) - 1) : MdMatch(rule, s, i) # NoMatch}
  IN IF hits = {} THEN Slice(s, from, Len(s))
     ELSE LET i == Least(hits)
              m == MdMatch(rule, s, i)
          IN Slice(s, from, i) \o m[2] \o MdSubFrom(rule, s, m[1])

\* The rules k.. of MdRules applied one after the other
RECURSIVE MdSubs(_, _)
MdSubs(s, k) ==
  IF k > Len(MdRules) THEN s ELSE MdSubs(MdSubFrom(MdRules[k], s, 0), k + 1)

\* s.split(sep) for a one-character sep
RECURSIVE SplitChar(_, _)
SplitChar(s, sep) ==
  LET a == UntilChar(s, 0, sep)
  IN IF a = Len(s) THEN <<s>>
     ELSE <<Slice(s, 0, a)>> \o SplitChar(Slice(s, a + 1, Len(s)), sep)

\* sep.join(parts)
RECURSIVE Join(_, _)
Join(parts, sep) ==
  IF parts = <<>> THEN <<>>
  ELSE IF Len(parts) = 1 THEN parts[1]
  ELSE parts[1] \o sep \o Join(Tail(parts), sep)

\* [f(x) for x in xs] with f = str.strip
StripEach(xs) == AsList([k \in 1..Len(xs) |-> Strip(xs[k])])

\* [x for x in xs if x]
RECURSIVE NonEmpty(_)
NonEmpty(xs) ==
  IF xs = <<>> THEN <<>>
  ELSE IF Head(xs) = <<>> THEN NonEmpty(Tail(xs))
  ELSE <<Head(xs)>> \o NonEmpty(Tail(xs))

strip_markdown(t) ==
  Strip(Join(StripEach(SplitChar(MdSubs(t, 1), 10)), <<10>>))

\* The line boundaries of str.splitlines()
LineBreaks == {10, 11, 12, 13, 28, 29, 30, 133, 8232, 8233}

\* str.splitlines(): "\r\n" is one boundary, no empty line after the last
\* boundary
RECURSIVE SplitLines(_)
SplitLines(s) ==
  IF s = <<>> THEN <<>>
  ELSE LET a == CHOOSE e \in 0..Len(s) :
                  /\ e = Len(s) \/ s[e + 1] \in LineBreaks
                  /\ \A k \in 1..e : s[k] \notin LineBreaks
           b == IF StartsWithAt(s, <<13, 10>>, a) THEN a + 2 ELSE a + 1
       IN <<Slice(s, 0, a)>> \o SplitLines(Slice(s, b, Len(s)))

\* . ! ?
SentenceEnd == {46, 33, 63}

\* re.split(r'(?<=[.!?])\s+', s): s is cut at every run of \s that follows
\* a sentence end
RECURSIVE ReSplitFrom(_, _)
ReSplitFrom(s, from) ==
  LET hits == {i \in Max(from, 1)..(Len(s) - 1) :
                 s[i] \in SentenceEnd /\ IsSpace(s[i + 1])}
  IN IF hits = {} THEN <<Slice(s, from, Len(s))>>
     ELSE LET i == Least(hits)
          IN <<Slice(s, from, i)>> \o ReSplitFrom(s, SpaceEnd(s, i))

split_into_units(t) ==
  LET units == NonEmpty(StripEach(SplitLines(t)))
      cleaned == NonEmpty(StripEach(ReSplitFrom(t, 0)))
  IN IF Contains(t, <<10>>) /\ units # <<>> THEN units
     ELSE IF cleaned # <<>> THEN cleaned
     ELSE <<t>>

\* re.sub(r'(\S+)(\s+\1){2,}', r'\1', s): the end of the repetitions of the
\* word w (with \s+ before each) from 0-based position pos on, and their
\* number
RECURSIVE Repeats(_, _, _, _)
Repeats(s, w, pos, n) ==
  LET a == SpaceEnd(s, pos)
  IN IF a > pos /\ StartsWithAt(s, w, a)
     THEN Repeats(s, w, a + Len(w), n + 1)
     ELSE <<pos, n>>

\* The match of (\S+)(\s+\1){2,} that starts at 0-based position i:
\* <<end, word>>, or NoMatch.  \S+ must reach the next \s, so the word is
\* the rest of the word that i is in.
RepeatMatch(s, i) ==
  LET a == CHOOSE e \in i..Len(s) :
             /\ e = Len(s) \/ IsSpace(s[e + 1])
             /\ \A k \in (i + 1)..e : ~IsSpace(s[k])
      w == Slice(s, i, a)
      r == Repeats(s, w, a, 0)
  IN IF a > i /\ r[2] >= 2 THEN <<r[1], w>> ELSE NoMatch

RECURSIVE RepeatSubFrom(_, _)
RepeatSubFrom(s, from) ==
  LET hits == {i \in from..(Len(s) - 1) : RepeatMatch(s, i) # NoMatch}
  IN IF hits = {} THEN Slice(s, from, Len(s))
     ELSE LET i == Least(hits)
              m == RepeatMatch(s, i)
          IN Slice(s, from, i) \o m[2] \o RepeatSubFrom(s, m[1])

\* re.sub(r'\s+', ' ', s)
RECURSIVE SpacesSubFrom(_, _)
SpacesSubFrom(s, from) ==
  LET hits == {i \in from..(Len(s) - 1) : IsSpace(s[i + 1])}
  IN IF hits = {} THEN Slice(s, from, Len(s))
     ELSE LET i == Least(hits)
          IN Slice(s, from, i) \o <<32>> \o SpacesSubFrom(s, SpaceEnd(s, i))

\* re.sub(r'\s*([.!?])\s*', r'\1 ', s)
RECURSIVE PunctSubFrom(_, _)
PunctSubFrom(s, from) ==
  LET hits == {i \in from..(Len(s) - 1) :
                 SpaceEnd(s, i) < Len(s) /\ s[SpaceEnd(s, i) + 1] \in SentenceEnd}
  IN IF hits = {} THEN Slice(s, from, Len(s))
     ELSE LET i == Least(hits)
              p == SpaceEnd(s, i)
          IN Slice(s, from, i) \o <<s[p + 1], 32>>
               \o PunctSubFrom(s, SpaceEnd(s, p + 1))

post_process_translation(t) ==
  Strip(PunctSubFrom(SpacesSubFrom(RepeatSubFrom(t, 0), 0), 0))

(***************************************************************************)
(* Inputs                                                                  *)
(***************************************************************************)
\* The input texts are the concatenations of at most MaxPieces pieces:
\* "oxygen", "Cell", "dna", "triangle", "rectangle" (glossary terms longer
\* than, as long as and shorter than a placeholder, in either case, two of
\* them holding the shorter term "angle"), " ", "x", "nucleu" (a term but
\* for its last letter) and "SCI" (the placeholder prefix as user text).
MaxPieces == 3

Pieces ==
  {
    <<111, 120, 121, 103, 101, 110>>,
    <<67, 101, 108, 108>>,
    <<100, 110, 97>>,
    <<116, 114, 105, 97, 110, 103, 108, 101>>,
    <<114, 101, 99, 116, 97, 110, 103, 108, 101>>,
    <<32>>,
    <<120>>,
    <<110, 117, 99, 108, 101, 117>>,
    <<83, 67, 73>>
  }

RECURSIVE TextsOf(_, _)
TextsOf(pieces, n) ==
  IF n = 0 THEN {<<>>}
  ELSE LET shorter == TextsOf(pieces, n - 1)
       IN shorter \cup {t \o q : t \in shorter, q \in pieces}

Inputs == TextsOf(Pieces, MaxPieces)

(***************************************************************************)
(* The translation engine, as restore_terms expects it to treat            *)
(* placeholders: kept intact, prefix transliterated, or prefix             *)
(* transliterated and the number lost.                                     *)
(***************************************************************************)
EngineModes == {"identity", "translit", "numlost"}

Engine(md, t, m) ==
  CASE md = "identity" -> t
    [] md = "translit" -> ReplaceAll(t, SCI, TRANSLIT)
    [] OTHER -> ExactPass(t, AsList([i \in 1..Len(m) |-> <<m[i][1], TRANSLIT>>]), 1)

(***************************************************************************)
(* State                                                                   *)
(***************************************************************************)
VARIABLES
  pc,             \* where the run stands
  text,           \* extract_and_replace_terms: the argument
  modified_text,  \* extract_and_replace_terms: modified_text
  text_lower,     \* extract_and_replace_terms: text_lower
  term_map,       \* extract_and_replace_terms: term_map, as its items()
  index,          \* extract_and_replace_terms: index
  ti,             \* position in sorted_terms of the outer loop (0: not begun)
  matches,        \* the spans of the inner loop still to visit
  last,           \* what the latest inner-loop pass did (for the properties)
  nreplaced,      \* how many inner-loop passes substituted (for the properties)
  mode,           \* what the engine did to the placeholders
  translated,     \* restore_terms: translated_text
  result,         \* restore_terms: result
  ri,             \* position in sorted_items of the second loop (0: not begun)
  nfound,         \* entries whose exact placeholder was found and replaced
  ngeneric,       \* entries that replaced a prefix without a number
  again,          \* restore_terms applied to its own result
  server,         \* which persistent server runs: "indictrans2" or "nllb"
  s_pc,           \* main: position in the server loop
  stdin,          \* the request lines the caller sends
  nread,          \* request lines main has read and handled
  stdout,         \* the JSON lines written so far
  model_cache,    \* _model_cache is set
  sidx,           \* translate_stream: units handled so far
  stotal,         \* translate_stream: total
  exit_code,      \* the exit status of the process (-1: running)
  nloads,         \* load_model: how often the engine was loaded
  stderr,         \* the error reports written to stderr
  translated_sentences, \* translate, translate_stream: per unit, whether
                  \* the engine's text or the original text was kept
  batch_failed,   \* nllb translate_stream: the batch call of the current
                  \* batch raised
  request,        \* translate, translate_stream: text and stream flag
  clean_text,     \* translate, translate_stream: clean_text
  text_with_placeholders, \* translate, translate_stream
  units,          \* translate, translate_stream: units
  events,         \* what translate / translate_stream called, in order
  l_pc,           \* a caller of the glossary tables: where it stands
  source_term,    \* the source term it looks up
  rendering,      \* ENGLISH_TO_HINDI_GLOSSARY[source_term]
  back,           \* HINDI_TO_ENGLISH_GLOSSARY[rendering]
  batch_results,  \* nllb translate: batch_results, and what each worker holds
  completed,      \* nllb translate: the batches as_completed still has to yield
  cwd,            \* the working directory of the process
  original_cwd,   \* indictrans2 load_model: original_cwd
  loaded,         \* indictrans2 load_model: what its locals hold so far
  cache_value     \* what the tuple in _model_cache holds

\* The variables of the stepwise restore_terms
rvars == <<ri, nfound, ngeneric, again>>

\* The variables of the stepwise extract_and_replace_terms
evars == <<text, modified_text, text_lower, index, ti, matches, nreplaced, mode>>

\* The variables of the persistent servers
svars == <<server, s_pc, stdin, nread, stdout, model_cache, sidx, stotal,
           exit_code, nloads, stderr, translated_sentences, batch_failed>>

\* The variables of one translate / translate_stream call looked at with
\* its texts
tvars == <<request, clean_text, text_with_placeholders, units, events>>

\* The variables of a caller that looks a term up in both glossary tables
lvars == <<l_pc, source_term, rendering, back>>

\* The variables of the parallel batches of nllb_server.translate
pvars == <<batch_results, completed>>

\* The variables of the working directory
cvars == <<cwd, original_cwd, loaded, cache_value>>

vars == <<pc, text, modified_text, text_lower, term_map, index, ti, matches,
          last, nreplaced, mode, translated, result, rvars, svars, tvars,
          lvars, pvars, cvars>>

NoLast == [kind |-> "none"]

\* No caller looks a term up in the glossary tables
LookupIdle ==
  /\ l_pc = "none"
  /\ source_term = <<>>
  /\ rendering = <<>>
  /\ back = <<>>

\* No batch of nllb_server.translate is looked at
BatchIdle ==
  /\ batch_results = <<>>
  /\ completed = <<>>

\* The working directory is not looked at
CwdIdle ==
  /\ cwd = "none"
  /\ original_cwd = "none"
  /\ loaded = {}
  /\ cache_value = {}

\* No call of translate / translate_stream is looked at with its texts
TranslateIdle ==
  /\ request = [text |-> <<>>, stream |-> FALSE]
  /\ clean_text = <<>>
  /\ text_with_placeholders = <<>>
  /\ units = <<>>
  /\ events = <<>>

\* No server runs
ServerIdle ==
  /\ server = "none"
  /\ s_pc = "none"
  /\ stdin = <<>>
  /\ nread = 0
  /\ stdout = <<>>
  /\ model_cache = FALSE
  /\ sidx = 0
  /\ stotal = 0
  /\ exit_code = -1
  /\ nloads = 0
  /\ stderr = <<>>
  /\ translated_sentences = <<>>
  /\ batch_failed = FALSE

\* The loop state of extract_and_replace_terms held in the variables
LoopState ==
  [modified_text |-> modified_text, text_lower |-> text_lower,
   term_map |-> term_map, index |-> index]

(***************************************************************************)
(* Spec: extract_and_replace_terms on an input text, one inner-loop pass   *)
(* per step, then the engine, then restore_terms.                          *)
(***************************************************************************)
Init ==
  /\ LookupIdle
  /\ BatchIdle
  /\ CwdIdle
  /\ TranslateIdle
  /\ ServerIdle
  /\ text \in Inputs
  /\ pc = "extract"
  /\ modified_text = text
  /\ text_lower = LowerStr(text)
  /\ term_map = <<>>
  /\ index = 0
  /\ ti = 0
  /\ matches = <<>>
  /\ last = NoLast
  /\ nreplaced = 0
  /\ mode = "none"
  /\ translated = <<>>
  /\ result = <<>>
  /\ ri = 0
  /\ nfound = 0
  /\ ngeneric = 0
  /\ again = <<>>

\* The outer loop moves on to the next term with a match (terms without a
\* match have an empty inner loop) and lists its matches.
NextTerm ==
  /\ pc = "extract"
  /\ matches = <<>>
  /\ TermsMatching(text_lower, ti + 1) # {}
  /\ ti' = Least(TermsMatching(text_lower, ti + 1))
  /\ matches' = FindIter(sorted_terms[ti'][1], text_lower, 0)
  /\ last' = NoLast
  /\ UNCHANGED <<pc, text, modified_text, text_lower, term_map, index,
                 nreplaced, mode, translated, result,
                 rvars, svars, tvars, lvars,
                 pvars, cvars>>

\* An inner-loop pass that takes the "continue" of the already-replaced test
SkipMatch ==
  /\ pc = "extract"
  /\ matches # <<>>
  /\ AlreadyReplaced(modified_text, Head(matches)[1], Head(matches)[2])
  /\ matches' = Tail(matches)
  /\ last' = [kind |-> "skip", span |-> Head(matches), before |-> modified_text,
              index |-> index]
  /\ UNCHANGED <<pc, text, modified_text, text_lower, term_map, index, ti,
                 nreplaced, mode, translated, result,
                 rvars, svars, tvars, lvars,
                 pvars, cvars>>

\* An inner-loop pass that substitutes a placeholder
ReplaceMatch ==
  /\ pc = "extract"
  /\ matches # <<>>
  /\ ~AlreadyReplaced(modified_text, Head(matches)[1], Head(matches)[2])
  /\ LET st == MatchIteration(LoopState, sorted_terms[ti][1],
                              sorted_terms[ti][2], Head(matches))
     IN /\ modified_text' = st.modified_text
        /\ text_lower' = st.text_lower
        /\ term_map' = st.term_map
        /\ index' = st.index
  /\ matches' = Tail(matches)
  /\ last' = [kind |-> "replace", span |-> Head(matches),
              before |-> modified_text, index |-> index]
  /\ nreplaced' = nreplaced + 1
  /\ UNCHANGED <<pc, text, ti, mode, translated, result,
                 rvars, svars, tvars, lvars,
                 pvars, cvars>>

\* return modified_text, term_map
ExtractReturn ==
  /\ pc = "extract"
  /\ matches = <<>>
  /\ TermsMatching(text_lower, ti + 1) = {}
  /\ pc' = "extracted"
  /\ ti' = Len(sorted_terms) + 1
  /\ last' = NoLast
  /\ UNCHANGED <<text, modified_text, text_lower, term_map, index, matches,
                 nreplaced, mode, translated, result,
                 rvars, svars, tvars, lvars,
                 pvars, cvars>>

\* The engine turns the protected text into the translated text.
Translate ==
  /\ pc = "extracted"
  /\ \E md \in EngineModes :
       /\ mode' = md
       /\ translated' = Engine(md, modified_text, term_map)
  /\ pc' = "translated"
  /\ UNCHANGED <<text, modified_text, text_lower, term_map, index, ti, matches,
                 last, nreplaced, result,
                 rvars, svars, tvars, lvars,
                 pvars, cvars>>

\* restore_terms(translated, term_map)
Restore ==
  /\ pc = "translated"
  /\ result' = restore_terms(translated, term_map)
  /\ pc' = "restored"
  /\ UNCHANGED <<text, modified_text, text_lower, term_map, index, ti, matches,
                 last, nreplaced, mode, translated,
                 rvars, svars, tvars, lvars,
                 pvars, cvars>>

Next ==
  \/ NextTerm
  \/ SkipMatch
  \/ ReplaceMatch
  \/ ExtractReturn
  \/ Translate
  \/ Restore

Spec == Init /\ [][Next]_vars

\* The stepwise run and the function agree.
StepwiseIsExtract ==
  pc \in {"extracted", "translated", "restored"} =>
    <<modified_text, term_map>> = extract_and_replace_terms(text)

(***************************************************************************)
(* Properties of extract_and_replace_terms and restore_terms under Spec    *)
(***************************************************************************)
\* Term j (in sorted_terms) occurs in t, in any letter case
Holds(t, j) == Contains(LowerStr(t), sorted_terms[j][1])

HoldsNoTerm(t) == \A j \in 1..Len(sorted_terms) : ~Holds(t, j)

\* The 0-based positions at which p occurs in t
Positions(t, p) == {i \in 0..(Len(t) - Len(p)) : StartsWithAt(t, p, i)}

\* t with every occurrence, in any letter case, of term replaced by new
RECURSIVE RenderFrom(_, _, _, _)
RenderFrom(t, term, new, from) ==
  LET i == FindFrom(LowerStr(t), term, from)
  IN IF i = -1 THEN Slice(t, from, Len(t))
     ELSE Slice(t, from, i) \o new \o RenderFrom(t, term, new, i + Len(term))

\* t with every occurrence of a glossary term replaced by the term's
\* rendering, longer terms first, the rest of t as it is
RECURSIVE Rendered(_, _)
Rendered(t, i) ==
  LET js == {j \in i..Len(sorted_terms) : Holds(t, j)}
  IN IF js = {} THEN t
     ELSE LET j == Least(js)
          IN Rendered(RenderFrom(t, sorted_terms[j][1], sorted_terms[j][2], 0),
                      j + 1)

\* C1: with the engine leaving the protected text as it is, restore_terms
\* after extract_and_replace_terms gives the input with every occurrence of
\* a glossary term replaced by its rendering and nothing else changed.
C1_RoundTrip ==
  (pc = "restored" /\ mode = "identity") => result = Rendered(text, 1)

\* C2: a substitution replaces exactly the characters of the term's
\* occurrence in the current text: the span it cuts out of modified_text
\* reads as the term, and the text before and after the span is kept.
C2_SubstitutionFrame ==
  last.kind = "replace" =>
    /\ last.span[2] <= Len(last.before)
    /\ LowerStr(Slice(last.before, last.span[1], last.span[2]))
         = sorted_terms[ti][1]
    /\ modified_text
         = Slice(last.before, 0, last.span[1])
             \o (SCI \o Str(last.index))
             \o Slice(last.before, last.span[2], Len(last.before))

\* C3: the text and the term map agree all along the call: every
\* placeholder of the map stands in the text, intact and once.
C3_TextAgreesWithMap ==
  pc \in {"extract", "extracted"} =>
    \A i \in 1..Len(term_map) :
      Cardinality(Positions(modified_text, term_map[i][1])) = 1

\* C4: the placeholders of one call are pairwise distinct, their ordinals
\* are 0..k-1 in the order of the replacements, k is the number of
\* replacements and the size of the term map, and a skipped match takes no
\* ordinal.
C4_Ordinals ==
  pc \in {"extract", "extracted"} =>
    /\ index = nreplaced
    /\ Len(term_map) = nreplaced
    /\ \A i \in 1..Len(term_map) : term_map[i][1] = SCI \o Str(i - 1)
    /\ \A i, j \in 1..Len(term_map) :
         i # j => term_map[i][1] # term_map[j][1]
    /\ last.kind = "skip" => index = last.index
    /\ last.kind = "replace" =>
         /\ index = last.index + 1
         /\ term_map[Len(term_map)][1] = SCI \o Str(last.index)

\* C4 witness: a match is skipped after two replacements.
C4_Witness == pc = "extract" /\ last.kind = "skip" /\ nreplaced >= 2

\* The terms that hold the shorter term s (of sorted_terms) inside them
Containers(s) ==
  {l \in 1..Len(sorted_terms) :
     l # s /\ Contains(sorted_terms[l][1], sorted_terms[s][1])}

\* How many entries of the term map carry the rendering of term j
EntriesFor(j) ==
  Cardinality({i \in 1..Len(term_map) : term_map[i][2] = sorted_terms[j][2]})

\* How often term j occurs in the input
Occurrences(j) == Cardinality(Positions(LowerStr(text), sorted_terms[j][1]))

\* Every occurrence in the input of the shorter term s lies in a longer term
OnlyInsideLonger(s) ==
  /\ Containers(s) # {}
  /\ Occurrences(s) > 0
  /\ Occurrences(s)
       = Cardinality({<<l, i>> \in Containers(s) \X (0..Len(text)) :
                        i \in Positions(LowerStr(text), sorted_terms[l][1])})

\* C5: where a shorter term occurs only inside longer terms ("angle" in
\* "triangle", "rectangle"), each occurrence of a longer term gets one
\* placeholder that covers all of it, and the shorter term gets none.
C5_LongestMatch ==
  \A s \in 1..Len(sorted_terms) :
    OnlyInsideLonger(s) =>
      /\ pc = "extracted" =>
           /\ EntriesFor(s) = 0
           /\ \A l \in Containers(s) : EntriesFor(l) = Occurrences(l)
      /\ (last.kind = "replace" /\ ti \in Containers(s)) =>
           LowerStr(Slice(last.before, last.span[1], last.span[2]))
             = sorted_terms[ti][1]

\* C6: an input that holds no glossary term comes back unchanged with an
\* empty term map, and restore_terms with the empty map leaves whatever the
\* engine returned unchanged.
C6_NoTermUnchanged ==
  /\ (HoldsNoTerm(text) /\ pc \in {"extracted", "translated", "restored"}) =>
       modified_text = text /\ term_map = <<>>
  /\ (pc = "restored" /\ term_map = <<>>) => result = translated

\* C6 witness: a non-empty input without a term went through, and the
\* engine transliterated the "SCI" it holds.
C6_Witness ==
  /\ pc = "restored"
  /\ HoldsNoTerm(text)
  /\ Contains(text, SCI)
  /\ Contains(translated, TRANSLIT)
  /\ result = translated

(***************************************************************************)
(* RestoreSpec: restore_terms on what the engine may return for a term map *)
(* of extract_and_replace_terms, one loop pass per step, then once more on  *)
(* its own result.                                                         *)
(***************************************************************************)
\* The translated texts are the concatenations of at most MaxRestorePieces
\* pieces: "SCI", the transliterated prefix, "0", "1", " " and "x".
MaxRestorePieces == 4

RestorePieces == {SCI, TRANSLIT, <<48>>, <<49>>, <<32>>, <<120>>}

RestoreTexts == TextsOf(RestorePieces, MaxRestorePieces)

\* The term maps have at most MaxEntries entries, SCI0, SCI1, ... in this
\* order, each with the rendering of "dna" or of "oxygen".
MaxEntries == 2

RestoreRenderings ==
  {sorted_terms[j][2] : j \in {k \in 1..Len(sorted_terms) :
      sorted_terms[k][1] \in {<<100, 110, 97>>, <<111, 120, 121, 103, 101, 110>>}}}

RECURSIVE MapsOfSize(_)
MapsOfSize(k) ==
  IF k = 0 THEN {<<>>}
  ELSE {Append(m, <<create_placeholder(<<>>, k - 1), r>>) :
          m \in MapsOfSize(k - 1), r \in RestoreRenderings}

RestoreMaps == UNION {MapsOfSize(k) : k \in 0..MaxEntries}

\* The entries whose placeholder the first loop finds in the text
FoundInExactPass(t, m) ==
  {i \in 1..Len(m) : Contains(ExactPass(t, SubSeq(m, 1, i - 1), 1), m[i][1])}

RestoreInit ==
  /\ LookupIdle
  /\ BatchIdle
  /\ CwdIdle
  /\ TranslateIdle
  /\ ServerIdle
  /\ pc = "restore"
  /\ term_map \in RestoreMaps
  /\ translated \in RestoreTexts
  /\ result = translated
  /\ ri = 0
  /\ nfound = 0
  /\ ngeneric = 0
  /\ again = <<>>
  /\ last = NoLast
  /\ text = <<>>
  /\ modified_text = <<>>
  /\ text_lower = <<>>
  /\ index = 0
  /\ ti = 0
  /\ matches = <<>>
  /\ nreplaced = 0
  /\ mode = "none"

\* The first loop: every placeholder of the map that is in the text
RestoreExactPass ==
  /\ pc = "restore"
  /\ result' = ExactPass(result, term_map, 1)
  /\ nfound' = Cardinality(FoundInExactPass(result, term_map))
  /\ ri' = 1
  /\ pc' = "entries"
  /\ UNCHANGED <<term_map, translated, last, ngeneric, again, evars, svars, tvars,
                 lvars,
                 pvars, cvars>>

\* One pass of the second loop
RestoreEntryStep ==
  /\ pc = "entries"
  /\ ri <= Len(term_map)
  /\ LET item == sorted_items(term_map)[ri]
         b    == EntryBranch(result, item)
     IN /\ result' = RestoreEntry(result, item)
        /\ nfound' = IF b = "exact" THEN nfound + 1 ELSE nfound
        /\ ngeneric' = IF b = "generic" THEN ngeneric + 1 ELSE ngeneric
        /\ last' = [kind |-> b, before |-> result, item |-> item]
  /\ ri' = ri + 1
  /\ UNCHANGED <<pc, term_map, translated, again, evars, svars, tvars, lvars,
                 pvars, cvars>>

\* return result
RestoreReturn ==
  /\ pc = "entries"
  /\ ri > Len(term_map)
  /\ pc' = "restored"
  /\ last' = NoLast
  /\ UNCHANGED <<term_map, translated, result, rvars, evars, svars, tvars, lvars,
                 pvars, cvars>>

\* restore_terms(result, term_map), the second call
RestoreAgain ==
  /\ pc = "restored"
  /\ again' = restore_terms(result, term_map)
  /\ pc' = "again"
  /\ UNCHANGED <<term_map, translated, result, last, ri, nfound, ngeneric, evars, svars, tvars,
                 lvars,
                 pvars, cvars>>

RestoreNext ==
  \/ RestoreExactPass
  \/ RestoreEntryStep
  \/ RestoreReturn
  \/ RestoreAgain

RestoreSpec == RestoreInit /\ [][RestoreNext]_vars

\* The stepwise run and the function agree.
StepwiseIsRestore ==
  pc \in {"restored", "again"} => result = restore_terms(translated, term_map)

(***************************************************************************)
(* Properties of restore_terms under RestoreSpec                           *)
(***************************************************************************)
\* C7: restore_terms is idempotent: applied to its own result with the same
\* term map it changes nothing.
C7_Idempotent == pc = "again" => again = result

\* The placeholder-like token that starts at 0-based position i of t:
\* "SCI" and the digits that follow it
TokenAt(t, i) == SCI \o DigitRun(t, i + 4)

\* How often the token tok stands in t
TokenCount(t, tok) ==
  Cardinality({i \in Positions(t, SCI) : TokenAt(t, i) = tok})

Keys(m) == {m[i][1] : i \in 1..Len(m)}

\* C8: a placeholder-like token of the translated text that is no
\* placeholder of the term map (SCI10 with a map of SCI0 and SCI1, SCI in
\* a word) stands in the result as often as in the translated text.
C8_UnknownTokensKept ==
  pc = "restored" =>
    \A i \in Positions(translated, SCI) :
      TokenAt(translated, i) \notin Keys(term_map) =>
        TokenCount(result, TokenAt(translated, i))
          = TokenCount(translated, TokenAt(translated, i))

\* C9: the prefixes without a number that one call replaces are never more
\* than the entries whose exact placeholder the call did not find.
C9_GenericWithinOutstanding ==
  pc \in {"entries", "restored"} => ngeneric <= Len(term_map) - nfound

(***************************************************************************)
(* ServerSpec: main of indictrans2_server and of nllb_server, the loop     *)
(* that reads one request line from stdin and writes JSON lines to stdout, *)
(* with translate and translate_stream unit by unit.  The texts are not    *)
(* looked into here: of a unit only whether the engine's text or the       *)
(* original text was kept is recorded.                                     *)
(***************************************************************************)
\* The caller sends at most MaxRequests lines; a text has at most MaxUnits
\* units.
MaxRequests == 2

MaxUnits == 2

\* int(req.get("batch_size") or 8)
DefaultBatchSize == 8

\* A request line.  kind: a blank line, a line that is no JSON, a JSON value
\* that is no object, or an object.  For an object: text says that the text
\* field is there and not blank, stream is its stream field, batch says
\* whether int() accepts its batch_size field, batch_size is the value (a
\* positive number), units is the number of non-blank units of its text
\* after strip_markdown.
RequestLines ==
  {[kind |-> k, text |-> FALSE, stream |-> FALSE, batch |-> "ok",
    batch_size |-> DefaultBatchSize, units |-> 0] :
      k \in {"blank", "badjson", "nonobject"}}
  \cup {[kind |-> "object", text |-> FALSE, stream |-> st, batch |-> b,
         batch_size |-> DefaultBatchSize, units |-> 0] :
      st \in BOOLEAN, b \in {"ok", "bad"}}
  \cup {[kind |-> "object", text |-> TRUE, stream |-> st, batch |-> "bad",
         batch_size |-> DefaultBatchSize, units |-> u] :
      st \in BOOLEAN, u \in 0..MaxUnits}
  \cup {[kind |-> "object", text |-> TRUE, stream |-> st, batch |-> "ok",
         batch_size |-> bs, units |-> u] :
      st \in BOOLEAN, bs \in {1, DefaultBatchSize}, u \in 0..MaxUnits}

RECURSIVE LinesOf(_)
LinesOf(n) ==
  IF n = 0 THEN {<<>>}
  ELSE LinesOf(n - 1)
       \cup {Append(ls, l) : ls \in {x \in LinesOf(n - 1) : Len(x) = n - 1},
                             l \in RequestLines}

\* The glossary functions do not run
gvars == <<pc, term_map, last, translated, result, evars, rvars>>

GlossaryIdle ==
  /\ pc = "none"
  /\ text = <<>>
  /\ modified_text = <<>>
  /\ text_lower = <<>>
  /\ term_map = <<>>
  /\ index = 0
  /\ ti = 0
  /\ matches = <<>>
  /\ last = NoLast
  /\ nreplaced = 0
  /\ mode = "none"
  /\ translated = <<>>
  /\ result = <<>>
  /\ ri = 0
  /\ nfound = 0
  /\ ngeneric = 0
  /\ again = <<>>

ServerInit ==
  /\ LookupIdle
  /\ BatchIdle
  /\ CwdIdle
  /\ TranslateIdle
  /\ GlossaryIdle
  /\ server \in {"indictrans2", "nllb"}
  /\ s_pc = "start"
  /\ stdin \in LinesOf(MaxRequests)
  /\ nread = 0
  /\ stdout = <<>>
  /\ model_cache = FALSE
  /\ sidx = 0
  /\ stotal = 0
  /\ exit_code = -1
  /\ nloads = 0
  /\ stderr = <<>>
  /\ translated_sentences = <<>>
  /\ batch_failed = FALSE

\* The line main is handling
Line == stdin[nread + 1]

\* A line written with the number of the line after the one main is handling
WriteAhead(success, type, idx, total) ==
  Append(stdout, [req |-> nread + 2, success |-> success, type |-> type,
                  index |-> idx, total |-> total])

\* json.dumps(...) + "\n" written to stdout for the line main is handling
Write(success, type, idx, total) ==
  Append(stdout, [req |-> nread + 1, success |-> success, type |-> type,
                  index |-> idx, total |-> total])

\* req.get(...) and the conversions of the fields raise nothing: the line is
\* an object and, in nllb_server, int() accepts batch_size
FieldsRead ==
  /\ Line.kind = "object"
  /\ ~(server = "nllb" /\ Line.batch = "bad")

\* load_model() that loads whether or not the cache is set
LoadCountUncached(cache, n) == n + 1

\* load_model(): the number of loads after a call that returns, n before it
LoadCount(cache, n) == IF cache THEN n ELSE n + 1

\* What can make load_model raise
LoadFailures ==
  IF server = "indictrans2"
  THEN {"model_missing", "vocabulary_missing", "load_raises"}
  ELSE {"load_raises"}

\* What a failing load_model itself writes to stderr before it raises
LoadDiagnostics(cause) ==
  IF server = "nllb" THEN <<[kind |-> "load_failed", error |-> cause]>> ELSE <<>>

\* load_model() at startup returns
LoadModel ==
  /\ s_pc = "start"
  /\ nloads' = LoadCount(model_cache, nloads)
  /\ model_cache' = TRUE
  /\ s_pc' = "read"
  /\ UNCHANGED <<server, stdin, nread, stdout, sidx, stotal, exit_code,
                 stderr, translated_sentences, batch_failed, gvars, tvars,
                 lvars,
                 pvars, cvars>>

\* load_model() at startup raises: Fatal error, sys.exit(1)
LoadModelFails ==
  /\ s_pc = "start"
  /\ \E cause \in LoadFailures :
       stderr' = stderr \o LoadDiagnostics(cause)
                        \o <<[kind |-> "fatal", error |-> cause]>>
  /\ s_pc' = "exited"
  /\ exit_code' = 1
  /\ UNCHANGED <<server, stdin, nread, stdout, model_cache, sidx, stotal,
                 nloads, translated_sentences, batch_failed, gvars, tvars,
                 lvars,
                 pvars, cvars>>

\* readline() returns "": break
EndOfInput ==
  /\ s_pc = "read"
  /\ nread = Len(stdin)
  /\ s_pc' = "exited"
  /\ exit_code' = 0
  /\ UNCHANGED <<server, stdin, nread, stdout, model_cache, sidx, stotal,
                 nloads, stderr, translated_sentences, batch_failed, gvars, tvars,
                 lvars,
                 pvars, cvars>>

\* a blank line: continue
BlankLine ==
  /\ s_pc = "read"
  /\ nread < Len(stdin)
  /\ Line.kind = "blank"
  /\ nread' = nread + 1
  /\ UNCHANGED <<server, s_pc, stdin, stdout, model_cache, sidx, stotal,
                 exit_code, nloads, stderr, translated_sentences,
                 batch_failed, gvars, tvars, lvars,
                 pvars, cvars>>

\* json.loads raises JSONDecodeError: the Invalid JSON line
InvalidJson ==
  /\ s_pc = "read"
  /\ nread < Len(stdin)
  /\ Line.kind = "badjson"
  /\ stdout' = Write(FALSE, "result", 0, 0)
  /\ nread' = nread + 1
  /\ UNCHANGED <<server, s_pc, stdin, model_cache, sidx, stotal, exit_code,
                 nloads, stderr, translated_sentences, batch_failed, gvars, tvars,
                 lvars,
                 pvars, cvars>>

\* req.get of a value that is no object, or int() of batch_size in
\* nllb_server, raises: the Translation failed line
FieldsRaise ==
  /\ s_pc = "read"
  /\ nread < Len(stdin)
  /\ \/ Line.kind = "nonobject"
     \/ Line.kind = "object" /\ server = "nllb" /\ Line.batch = "bad"
  /\ stdout' = Write(FALSE, "result", 0, 0)
  /\ nread' = nread + 1
  /\ UNCHANGED <<server, s_pc, stdin, model_cache, sidx, stotal, exit_code,
                 nloads, stderr, translated_sentences, batch_failed, gvars, tvars,
                 lvars,
                 pvars, cvars>>

\* if not text: result is assigned and nothing is written
EmptyText ==
  /\ s_pc = "read"
  /\ nread < Len(stdin)
  /\ FieldsRead
  /\ ~Line.text
  /\ nread' = nread + 1
  /\ UNCHANGED <<server, s_pc, stdin, stdout, model_cache, sidx, stotal,
                 exit_code, nloads, stderr, translated_sentences,
                 batch_failed, gvars, tvars, lvars,
                 pvars, cvars>>

\* The batch, 0-based, of unit k (1-based) of the line main is handling:
\* units[batch_idx:batch_idx + batch_size] for batch_idx in
\* range(0, len(units), batch_size)
BatchOf(k) == (k - 1) \div Line.batch_size

\* What the engine can do with the n units of the line: translate a unit,
\* fail for it so that the original text is kept, or, in nllb_server, give
\* nothing back for a whole batch (batch_decode returns no translation), so
\* that the loop over the translations of the batch has nothing to add
SentenceOutcomes(n) ==
  {f \in [1..n -> {"translated", "original", "nothing"}] :
     /\ server = "indictrans2" => \A k \in 1..n : f[k] # "nothing"
     /\ \A i, j \in 1..n :
          BatchOf(i) = BatchOf(j) => (f[i] = "nothing" <=> f[j] = "nothing")}

\* What translate can leave in translated_sentences for n units: for each
\* unit the engine's text, or the original text where the engine failed
\* (raised, or gave nothing back for the unit); nothing for the units of a
\* batch of nllb_server for which the engine gave nothing back
SentenceLists(n) ==
  {SelectSeq(AsList(f), LAMBDA x : x # "nothing") : f \in SentenceOutcomes(n)}

\* result = translate(...) and the write of the result: success unless
\* translated_sentences is empty
Translated ==
  /\ s_pc = "read"
  /\ nread < Len(stdin)
  /\ FieldsRead
  /\ Line.text
  /\ ~Line.stream
  /\ nloads' = LoadCount(model_cache, nloads)
  /\ model_cache' = TRUE
  /\ \E ts \in SentenceLists(Line.units) :
       /\ translated_sentences' = ts
       /\ stdout' = Write(ts # <<>>, "result", 0, 0)
  /\ nread' = nread + 1
  /\ UNCHANGED <<server, s_pc, stdin, sidx, stotal, exit_code, stderr,
                 batch_failed, gvars, tvars, lvars,
                 pvars, cvars>>

\* translate or translate_stream raises before its loop: the Translation
\* failed line
TranslateRaises ==
  /\ s_pc = "read"
  /\ nread < Len(stdin)
  /\ FieldsRead
  /\ Line.text
  /\ nloads' = LoadCount(model_cache, nloads)
  /\ model_cache' = TRUE
  /\ translated_sentences' = <<>>
  /\ stdout' = Write(FALSE, "result", 0, 0)
  /\ nread' = nread + 1
  /\ UNCHANGED <<server, s_pc, stdin, sidx, stotal, exit_code, stderr,
                 batch_failed, gvars, tvars, lvars,
                 pvars, cvars>>

\* translate_stream begins: total = len(units)
StreamBegin ==
  /\ s_pc = "read"
  /\ nread < Len(stdin)
  /\ FieldsRead
  /\ Line.text
  /\ Line.stream
  /\ Line.units > 0
  /\ nloads' = LoadCount(model_cache, nloads)
  /\ model_cache' = TRUE
  /\ translated_sentences' = <<>>
  /\ batch_failed' = FALSE
  /\ s_pc' = "stream"
  /\ sidx' = 0
  /\ stotal' = Line.units
  /\ UNCHANGED <<server, stdin, nread, stdout, exit_code, stderr, gvars, tvars,
                 lvars,
                 pvars, cvars>>

\* The unit at sidx is the first of a batch of nllb_server
BatchStarts == server = "nllb" /\ sidx % Line.batch_size = 0

\* translate_stream, one unit: the chunk line, written whether the engine
\* translated the unit or failed for it.  In nllb_server the units go to
\* the engine in batches; a batch whose call raises is done again sentence
\* by sentence.
StreamChunk ==
  /\ s_pc = "stream"
  /\ sidx < stotal
  /\ \E failed \in BOOLEAN :
       /\ BatchStarts \/ failed = batch_failed
       /\ batch_failed' = failed
  /\ \E kept \in {"translated", "original"} :
       translated_sentences' = Append(translated_sentences, kept)
  /\ stdout' = Write(TRUE, "chunk", sidx, stotal)
  /\ sidx' = sidx + 1
  /\ UNCHANGED <<server, s_pc, stdin, nread, model_cache, stotal, exit_code,
                 nloads, stderr, gvars, tvars, lvars,
                 pvars, cvars>>

\* translate_stream of nllb_server, one batch for which the engine gives
\* nothing back: the loop over the translations of the batch writes no chunk
StreamBatchNothing ==
  /\ s_pc = "stream"
  /\ sidx < stotal
  /\ BatchStarts
  /\ sidx' = Min(sidx + Line.batch_size, stotal)
  /\ batch_failed' = FALSE
  /\ UNCHANGED <<server, s_pc, stdin, nread, stdout, model_cache, stotal,
                 exit_code, nloads, stderr, translated_sentences, gvars, tvars,
                 lvars,
                 pvars, cvars>>

\* translate_stream after the loop: the complete line, or the error line
\* when translated_sentences is empty
StreamComplete ==
  /\ s_pc = "stream"
  /\ sidx = stotal
  /\ stdout' = IF translated_sentences = <<>>
               THEN Write(FALSE, "error", 0, 0)
               ELSE Write(TRUE, "complete", 0, stotal)
  /\ s_pc' = "read"
  /\ nread' = nread + 1
  /\ UNCHANGED <<server, stdin, model_cache, sidx, stotal, exit_code, nloads,
                 stderr, translated_sentences, batch_failed, gvars, tvars,
                 lvars,
                 pvars, cvars>>

\* translate_stream with no unit to translate: the error line
StreamNothing ==
  /\ s_pc = "read"
  /\ nread < Len(stdin)
  /\ FieldsRead
  /\ Line.text
  /\ Line.stream
  /\ Line.units = 0
  /\ nloads' = LoadCount(model_cache, nloads)
  /\ model_cache' = TRUE
  /\ translated_sentences' = <<>>
  /\ stdout' = Write(FALSE, "error", 0, 0)
  /\ nread' = nread + 1
  /\ UNCHANGED <<server, s_pc, stdin, sidx, stotal, exit_code, stderr,
                 batch_failed, gvars, tvars, lvars,
                 pvars, cvars>>

ServerNext ==
  \/ LoadModel
  \/ LoadModelFails
  \/ EndOfInput
  \/ BlankLine
  \/ InvalidJson
  \/ FieldsRaise
  \/ EmptyText
  \/ Translated
  \/ TranslateRaises
  \/ StreamBegin
  \/ StreamChunk
  \/ StreamBatchNothing
  \/ StreamComplete
  \/ StreamNothing

ServerSpec == ServerInit /\ [][ServerNext]_vars

(***************************************************************************)
(* Properties of the persistent servers under ServerSpec                   *)
(***************************************************************************)
\* C10: every non-blank request line main has read and handled is answered
\* by at least one JSON line on stdout, and every line carries a success
\* flag.
C10_EveryRequestAnswered ==
  \A i \in 1..nread :
    stdin[i].kind # "blank" =>
      \E j \in 1..Len(stdout) :
        stdout[j].req = i /\ stdout[j].success \in BOOLEAN

\* C12: a request for which the engine failed for every unit (or that gave
\* no unit) is answered by a failure line, and main keeps reading.
C12_WholeFailureReported ==
  ( /\ stdout # <<>>
    /\ stdout[Len(stdout)].req = nread
    /\ stdout[Len(stdout)].type \in {"result", "complete", "error"}
    /\ \A k \in 1..Len(translated_sentences) :
         translated_sentences[k] = "original" )
  => /\ ~stdout[Len(stdout)].success
     /\ exit_code # 1

\* The lines written for the request line n (1-based), in order
LinesFor(n) == SelectSeq(stdout, LAMBDA l : l.req = n)

\* The request line n is a streamed request with at least one unit that
\* translate_stream has taken up
Streamed(n) ==
  /\ stdin[n].kind = "object"
  /\ stdin[n].text
  /\ stdin[n].stream
  /\ stdin[n].batch = "ok" \/ server = "indictrans2"
  /\ stdin[n].units > 0

\* C14: a streamed request with N units that has been handled has on stdout
\* exactly N chunk lines with index 0..N-1 in this order and total N, then
\* one complete line with total N, and nothing after it.
C14_ChunksThenComplete ==
  \A n \in 1..nread :
    (Streamed(n) /\ LinesFor(n) # <<>> /\ LinesFor(n)[1].type # "result") =>
      LET ls == LinesFor(n)
          N  == stdin[n].units
      IN /\ Len(ls) = N + 1
         /\ \A k \in 1..N :
              /\ ls[k].type = "chunk"
              /\ ls[k].index = k - 1
              /\ ls[k].total = N
         /\ ls[N + 1].type = "complete"
         /\ ls[N + 1].total = N

\* C16: when load_model fails at startup the failure is reported once on
\* stderr, the process exits with status 1, and no line of stdin has been
\* read or answered.
C16_StartupFailureOnce ==
  exit_code = 1 =>
    /\ Len(stderr) = 1
    /\ nread = 0
    /\ stdout = <<>>
    /\ ~model_cache

C18_LoadedAtMostOnce ==
  /\ nloads <= 1
  /\ model_cache <=> nloads = 1

\* C18 witness: after the load at startup two requests were translated, each
\* with its own load_model call, and the engine was loaded once.
C18_Witness ==
  /\ nread = 2
  /\ Len(stdout) = 2
  /\ stdout[1].type = "result" /\ stdout[1].success
  /\ stdout[2].type = "result" /\ stdout[2].success
  /\ nloads = 1

\* The request line n was answered by a failure line
Failed(n) ==
  /\ LinesFor(n) # <<>>
  /\ ~LinesFor(n)[Len(LinesFor(n))].success

\* C24: a request that fails is answered by one failure line and does not
\* end the process: every later line that main has handled and that is not
\* blank is answered, and main leaves the loop only at the end of stdin.
C24_FailureDoesNotStop ==
  /\ (s_pc = "exited" /\ nread > 0) => (exit_code = 0 /\ nread = Len(stdin))
  /\ \A n \in 1..nread :
       /\ (Failed(n) /\ LinesFor(n)[1].type # "chunk") => Len(LinesFor(n)) = 1
       /\ ((\E k \in 1..(n - 1) : Failed(k)) /\ stdin[n].kind # "blank")
            => LinesFor(n) # <<>>

(***************************************************************************)
(* TranslateSpec: one call of translate or translate_stream of             *)
(* indictrans2_server with its texts, unit by unit.                        *)
(***************************************************************************)
\* The request texts are the concatenations of at most MaxRequestPieces
\* pieces: "dna", "oxygen" (glossary terms), "x", " ", ". " and a newline;
\* and three texts with "---", a horizontal rule of markdown: the rule
\* alone, before a line and after a line.  They are as main passes them on:
\* stripped and not empty.
MaxRequestPieces == 4

RequestPieces ==
  {<<100, 110, 97>>, <<111, 120, 121, 103, 101, 110>>, <<120>>, <<32>>,
   <<46, 32>>, <<10>>}

RuleTexts ==
  {<<45, 45, 45>>, <<45, 45, 45, 10, 120>>, <<120, 10, 45, 45, 45>>}

RequestTexts ==
  {t \in TextsOf(RequestPieces, MaxRequestPieces) : t # <<>> /\ Strip(t) = t}
    \cup RuleTexts

\* How the engine can fail for a unit: an exception, or nothing back from
\* preprocess_batch, the tokenizer, batch_decode or postprocess_batch
EngineFailures == {"raises", "preprocess", "tokenize", "decode", "postprocess"}

\* len(s.split()) == 1
OneWord(s) == Strip(s) # <<>> /\ \A k \in 1..Len(Strip(s)) : ~IsSpace(Strip(s)[k])

\* The test that keeps no unit from the engine
PlaceholderOnlyNever(s) == FALSE

\* The test that keeps a unit from the engine:
\* s.startswith("SCI") and len(s.split()) == 1, s the stripped unit
PlaceholderOnly(s) == StartsWithAt(Strip(s), SCI, 0) /\ OneWord(s)

\* post[0].strip() of a unit the engine translated
EngineText(md, sentence, m) == Strip(Engine(md, sentence, m))

\* A JSON line of translate / translate_stream on stdout
Emit(success, type, idx, total, txt) ==
  Append(stdout, [req |-> 1, success |-> success, type |-> type,
                  index |-> idx, total |-> total, translated |-> txt])

\* The units, 0-based, that have come to the engine or were kept from it
UnitsDone == {e.unit : e \in {events[k] : k \in {j \in 1..Len(events) :
                                   events[j].op \in {"engine", "bypass"}}}}

TranslateInit ==
  /\ LookupIdle
  /\ BatchIdle
  /\ CwdIdle
  /\ GlossaryIdle
  /\ server = "indictrans2"
  /\ s_pc = "call"
  /\ stdin = <<>>
  /\ nread = 0
  /\ stdout = <<>>
  /\ model_cache = TRUE
  /\ sidx = 0
  /\ stotal = 0
  /\ exit_code = -1
  /\ nloads = 1
  /\ stderr = <<>>
  /\ translated_sentences = <<>>
  /\ batch_failed = FALSE
  /\ request \in [text : RequestTexts, stream : BOOLEAN]
  /\ clean_text = <<>>
  /\ text_with_placeholders = <<>>
  /\ units = <<>>
  /\ events = <<>>

\* translate / translate_stream up to the loop: load_model, strip_markdown,
\* extract_and_replace_terms, split_into_units
TranslateBegin ==
  /\ s_pc = "call"
  /\ nloads' = LoadCount(model_cache, nloads)
  /\ clean_text' = strip_markdown(request.text)
  /\ LET ex == extract_and_replace_terms(clean_text')
     IN /\ text_with_placeholders' = ex[1]
        /\ term_map' = ex[2]
  /\ units' = split_into_units(text_with_placeholders')
  /\ stotal' = Len(units')
  /\ sidx' = 0
  /\ translated_sentences' = <<>>
  /\ events' = <<[op |-> "extract", unit |-> 0, outcome |-> "done"],
                 [op |-> "split", unit |-> 0, outcome |-> "done"]>>
  /\ s_pc' = "loop"
  /\ UNCHANGED <<server, stdin, nread, stdout, model_cache, exit_code, stderr,
                 batch_failed, request,
                 pc, last, translated, result, evars, rvars, lvars,
                 pvars, cvars>>

\* The unit of this pass of the loop lost
SentenceLost == <<>>

\* The unit of this pass of the loop; translate_stream strips it first
Sentence == IF request.stream THEN Strip(units[sidx + 1]) ELSE units[sidx + 1]

\* A loop pass of translate_stream whose chunk line shows the text as it
\* was before the terms were restored
UnitKeptRaw(txt, how) ==
  IF request.stream
  THEN LET out == post_process_translation(restore_terms(txt, term_map))
       IN /\ translated_sentences' = Append(translated_sentences, out)
          /\ stdout' = Emit(TRUE, "chunk", sidx, stotal, txt)
          /\ events' = events \o how
                         \o <<[op |-> "restore", unit |-> sidx, outcome |-> "done"],
                              [op |-> "emit", unit |-> sidx, outcome |-> "done"]>>
  ELSE /\ translated_sentences' = Append(translated_sentences, txt)
       /\ stdout' = stdout
       /\ events' = events \o how

\* What one pass of the loop does with the text txt it has for the unit:
\* translate appends it; translate_stream restores the terms in it,
\* post-processes it, appends it and writes the chunk line
UnitKept(txt, how) ==
  IF request.stream
  THEN LET out == post_process_translation(restore_terms(txt, term_map))
       IN /\ translated_sentences' = Append(translated_sentences, out)
          /\ stdout' = Emit(TRUE, "chunk", sidx, stotal, out)
          /\ events' = events \o how
                         \o <<[op |-> "restore", unit |-> sidx, outcome |-> "done"],
                              [op |-> "emit", unit |-> sidx, outcome |-> "done"]>>
  ELSE /\ translated_sentences' = Append(translated_sentences, txt)
       /\ stdout' = stdout
       /\ events' = events \o how

\* if not sentence.strip(): continue
UnitBlank ==
  /\ s_pc = "loop"
  /\ sidx < stotal
  /\ Strip(units[sidx + 1]) = <<>>
  /\ sidx' = sidx + 1
  /\ UNCHANGED <<server, s_pc, stdin, nread, stdout, model_cache, stotal,
                 exit_code, nloads, stderr, translated_sentences,
                 batch_failed, gvars, tvars, lvars,
                 pvars, cvars>>

\* A unit that is only a placeholder does not go to the engine
UnitPlaceholder ==
  /\ s_pc = "loop"
  /\ sidx < stotal
  /\ Strip(units[sidx + 1]) # <<>>
  /\ PlaceholderOnly(units[sidx + 1])
  /\ UnitKept(Strip(units[sidx + 1]),
              <<[op |-> "bypass", unit |-> sidx, outcome |-> "kept"]>>)
  /\ sidx' = sidx + 1
  /\ UNCHANGED <<server, s_pc, stdin, nread, model_cache, stotal, exit_code,
                 nloads, stderr, batch_failed, gvars,
                 request, clean_text, text_with_placeholders, units, lvars,
                 pvars, cvars>>

\* The engine fails for the unit: the unit is kept as it is
UnitFails ==
  /\ s_pc = "loop"
  /\ sidx < stotal
  /\ Strip(units[sidx + 1]) # <<>>
  /\ ~PlaceholderOnly(units[sidx + 1])
  /\ \E f \in EngineFailures :
       UnitKept(Sentence,
                <<[op |-> "engine", unit |-> sidx,
                   outcome |-> IF f = "raises" THEN "raised" ELSE "nothing"]>>)
  /\ sidx' = sidx + 1
  /\ UNCHANGED <<server, s_pc, stdin, nread, model_cache, stotal, exit_code,
                 nloads, stderr, batch_failed, gvars,
                 request, clean_text, text_with_placeholders, units, lvars,
                 pvars, cvars>>

\* The engine translates the unit
UnitTranslated ==
  /\ s_pc = "loop"
  /\ sidx < stotal
  /\ Strip(units[sidx + 1]) # <<>>
  /\ ~PlaceholderOnly(units[sidx + 1])
  /\ \E md \in EngineModes :
       UnitKept(EngineText(md, Sentence, term_map),
                <<[op |-> "engine", unit |-> sidx, outcome |-> md]>>)
  /\ sidx' = sidx + 1
  /\ UNCHANGED <<server, s_pc, stdin, nread, model_cache, stotal, exit_code,
                 nloads, stderr, batch_failed, gvars,
                 request, clean_text, text_with_placeholders, units, lvars,
                 pvars, cvars>>

\* After the loop with translated_sentences empty: the failure result of
\* translate (which main writes), the error line of translate_stream
TranslateNothing ==
  /\ s_pc = "loop"
  /\ sidx = stotal
  /\ translated_sentences = <<>>
  /\ stdout' = Emit(FALSE, IF request.stream THEN "error" ELSE "result", 0, 0, <<>>)
  /\ s_pc' = "done"
  /\ UNCHANGED <<server, stdin, nread, model_cache, sidx, stotal, exit_code,
                 nloads, stderr, translated_sentences, batch_failed, gvars,
                 tvars, lvars,
                 pvars, cvars>>

\* translate after the loop: join, restore_terms, post_process_translation,
\* and the result line main writes
TranslateReturn ==
  /\ s_pc = "loop"
  /\ sidx = stotal
  /\ translated_sentences # <<>>
  /\ ~request.stream
  /\ stdout' = Emit(TRUE, "result", 0, 0,
                    post_process_translation(
                      restore_terms(Join(translated_sentences, <<32>>), term_map)))
  /\ events' = events \o <<[op |-> "restore", unit |-> 0, outcome |-> "joined"],
                           [op |-> "emit", unit |-> 0, outcome |-> "joined"]>>
  /\ s_pc' = "done"
  /\ UNCHANGED <<server, stdin, nread, model_cache, sidx, stotal, exit_code,
                 nloads, stderr, translated_sentences, batch_failed, gvars,
                 request, clean_text, text_with_placeholders, units, lvars,
                 pvars, cvars>>

\* translate_stream after the loop: the complete line
StreamReturn ==
  /\ s_pc = "loop"
  /\ sidx = stotal
  /\ translated_sentences # <<>>
  /\ request.stream
  /\ stdout' = Emit(TRUE, "complete", 0, stotal,
                    Join(translated_sentences, <<32>>))
  /\ s_pc' = "done"
  /\ UNCHANGED <<server, stdin, nread, model_cache, sidx, stotal, exit_code,
                 nloads, stderr, translated_sentences, batch_failed, gvars,
                 tvars, lvars,
                 pvars, cvars>>

TranslateNext ==
  \/ TranslateBegin
  \/ UnitBlank
  \/ UnitPlaceholder
  \/ UnitFails
  \/ UnitTranslated
  \/ TranslateNothing
  \/ TranslateReturn
  \/ StreamReturn

TranslateSpec == TranslateInit /\ [][TranslateNext]_vars

(***************************************************************************)
(* Properties of translate and translate_stream under TranslateSpec        *)
(***************************************************************************)
\* The units, 0-based, for which the engine failed
FailedUnits ==
  {events[j].unit : j \in {i \in 1..Len(events) :
     events[i].op = "engine" /\ events[i].outcome \in {"raised", "nothing"}}}

\* The entries of the term map whose placeholder is in u
KeysIn(u) == {i \in 1..Len(term_map) : Contains(u, term_map[i][1])}

\* The chunk lines written for unit k
ChunksOf(k) ==
  {j \in 1..Len(stdout) : stdout[j].type = "chunk" /\ stdout[j].index = k}

\* C11: when the engine fails for a unit, the unit's original text stands
\* in its place (in translate_stream with its placeholders replaced by
\* their renderings and post-processed, and written as a success chunk; in
\* translate as it is, and no placeholder of it is left in the result), all
\* other units are still handled, and the request ends as a success.
C11_FailedUnitKept ==
  \A k \in FailedUnits :
    LET u    == units[k + 1]
        kept == translated_sentences[k + 1]
    IN /\ IF request.stream
          THEN /\ kept = post_process_translation(ExactPass(Strip(u), term_map, 1))
               /\ \A i \in KeysIn(u) : ~Contains(kept, term_map[i][1])
               /\ \E j \in ChunksOf(k) :
                    stdout[j].success /\ stdout[j].translated = kept
          ELSE kept = u
       /\ s_pc = "done" =>
            /\ UnitsDone = 0..(stotal - 1)
            /\ stdout[Len(stdout)].success
            /\ stdout[Len(stdout)].type = IF request.stream THEN "complete" ELSE "result"
            /\ ~request.stream =>
                 \A i \in KeysIn(u) :
                   /\ ~Contains(stdout[1].translated, term_map[i][1])
                   /\ Contains(stdout[1].translated, term_map[i][2])

\* C11 witness: a request of two units is done; the engine failed for the
\* first, which holds a placeholder, and translated the second.
C11_Witness ==
  /\ s_pc = "done"
  /\ stotal = 2
  /\ FailedUnits = {0}
  /\ KeysIn(units[1]) # {}
  /\ request.stream

\* The units, 0-based, that are exactly one placeholder of the term map
PlaceholderUnits ==
  {k \in 0..(Len(units) - 1) :
     \E i \in 1..Len(term_map) : Strip(units[k + 1]) = term_map[i][1]}

\* The rendering the term map gives for the placeholder that unit k is
RenderingOf(k) ==
  LET i == CHOOSE j \in 1..Len(term_map) : Strip(units[k + 1]) = term_map[j][1]
  IN term_map[i][2]

C15_UnitsNonEmpty ==
  s_pc \in {"loop", "done"} =>
    /\ units = split_into_units(text_with_placeholders)
    /\ units # <<>>
    /\ \A k \in 1..Len(units) : units[k] # <<>>
    /\ Contains(text_with_placeholders, <<10>>) =>
         units = NonEmpty(StripEach(SplitChar(text_with_placeholders, 10)))

\* The positions in events of the calls of op
CallsOf(op) == {j \in 1..Len(events) : events[j].op = op}

\* The positions in events where unit k came to the engine or was kept from it
HandledAt(k) ==
  {j \in CallsOf("engine") \cup CallsOf("bypass") : events[j].unit = k}

\* The positions in events where the text of unit k was written: its chunk
\* in translate_stream, the result in translate
EmittedAt(k) ==
  {j \in CallsOf("emit") : events[j].outcome = "joined" \/ events[j].unit = k}

\* C19: in a request that has been answered, extract_and_replace_terms ran
\* once and before split_into_units, and restore_terms ran once for each
\* unit, after the unit was translated and before its text was written.
C19_ExtractOnceRestorePerUnit ==
  (s_pc = "done" /\ stdout[Len(stdout)].success) =>
    /\ CallsOf("extract") = {1}
    /\ CallsOf("split") = {2}
    /\ Cardinality(CallsOf("restore")) = Cardinality(UnitsDone)
    /\ \A k \in UnitsDone :
         \E h \in HandledAt(k), r \in CallsOf("restore"), e \in EmittedAt(k) :
           h < r /\ r < e

(***************************************************************************)
(* LookupSpec: a caller looks a source term up in ENGLISH_TO_HINDI_GLOSSARY *)
(* and the rendering it gets in HINDI_TO_ENGLISH_GLOSSARY.                 *)
(***************************************************************************)
\* The keys of a dict
KeysOf(d) == {d[i][1] : i \in 1..Len(d)}

LookupInit ==
  /\ GlossaryIdle
  /\ BatchIdle
  /\ CwdIdle
  /\ ServerIdle
  /\ TranslateIdle
  /\ l_pc = "term"
  /\ source_term \in KeysOf(ENGLISH_TO_HINDI_GLOSSARY)
  /\ rendering = <<>>
  /\ back = <<>>

\* ENGLISH_TO_HINDI_GLOSSARY[source_term]
ForwardLookup ==
  /\ l_pc = "term"
  /\ rendering' = Lookup(ENGLISH_TO_HINDI_GLOSSARY, source_term)
  /\ l_pc' = "rendered"
  /\ UNCHANGED <<source_term, back, pc, term_map, last, translated, result,
                 evars, rvars, svars, tvars,
                 pvars, cvars>>

\* HINDI_TO_ENGLISH_GLOSSARY[rendering]
ReverseLookup ==
  /\ l_pc = "rendered"
  /\ back' = Lookup(HINDI_TO_ENGLISH_GLOSSARY, rendering)
  /\ l_pc' = "looked"
  /\ UNCHANGED <<source_term, rendering, pc, term_map, last, translated,
                 result, evars, rvars, svars, tvars,
                 pvars, cvars>>

LookupNext == ForwardLookup \/ ReverseLookup

LookupSpec == LookupInit /\ [][LookupNext]_vars

(***************************************************************************)
(* Properties of the glossary tables under LookupSpec                      *)
(***************************************************************************)
\* C20: the reverse table gives back the source term of every entry of the
\* glossary: looking a term up and then its rendering ends at the term.
C20_ReverseLookupIdentity ==
  l_pc = "looked" => back = source_term

(***************************************************************************)
(* ExactSpec: restore_terms on texts whose placeholders survived intact,   *)
(* with the term map of a request that held LongEntries terms.             *)
(***************************************************************************)
\* The term map has the entries SCI0 .. SCI(LongEntries - 1), in this order,
\* as extract_and_replace_terms leaves them for a text with LongEntries
\* terms, the k-th with the rendering of the k-th of sorted_terms.
LongEntries == 11

LongMap ==
  AsList([k \in 1..LongEntries |->
            <<create_placeholder(<<>>, k - 1), sorted_terms[k][2]>>])

\* The texts are the concatenations of at most MaxExactPieces pieces: the
\* placeholders SCI0, SCI1 and the last of the map, a space and "x".
MaxExactPieces == 3

ExactPieces ==
  {create_placeholder(<<>>, 0), create_placeholder(<<>>, 1),
   create_placeholder(<<>>, LongEntries - 1), <<32>>, <<120>>}

ExactTexts == TextsOf(ExactPieces, MaxExactPieces)

ExactInit ==
  /\ LookupIdle
  /\ BatchIdle
  /\ CwdIdle
  /\ TranslateIdle
  /\ ServerIdle
  /\ pc = "restore"
  /\ term_map = LongMap
  /\ translated \in ExactTexts
  /\ result = translated
  /\ ri = 0
  /\ nfound = 0
  /\ ngeneric = 0
  /\ again = <<>>
  /\ last = NoLast
  /\ text = <<>>
  /\ modified_text = <<>>
  /\ text_lower = <<>>
  /\ index = 0
  /\ ti = 0
  /\ matches = <<>>
  /\ nreplaced = 0
  /\ mode = "none"

ExactSpec == ExactInit /\ [][RestoreNext]_vars

(***************************************************************************)
(* Properties of restore_terms under ExactSpec                             *)
(***************************************************************************)
\* The text t from 1-based position i on, with every placeholder of m (SCI
\* and all the digits after it) replaced by the rendering m holds for it
RECURSIVE OwnRenderingFrom(_, _, _)
OwnRenderingFrom(t, m, i) ==
  IF i > Len(t) THEN <<>>
  ELSE LET tok == TokenAt(t, i - 1)
       IN IF StartsWithAt(t, SCI, i - 1) /\ tok \in Keys(m)
          THEN Lookup(m, tok) \o OwnRenderingFrom(t, m, i + Len(tok))
          ELSE <<t[i]>> \o OwnRenderingFrom(t, m, i + 1)

\* C21: restore_terms gives the text with every placeholder replaced by the
\* rendering recorded for that placeholder, and nothing else changed.
C21_OwnRendering ==
  pc = "restored" => result = OwnRenderingFrom(translated, term_map, 1)

(***************************************************************************)
(* Further properties of extract_and_replace_terms under Spec              *)
(***************************************************************************)
\* The span start..end (0-based, end exclusive) of mt lies inside a
\* placeholder of the map m that stands in mt
InsidePlaceholder(mt, m, start, end) ==
  \E p \in Positions(mt, SCI) :
    /\ TokenAt(mt, p) \in Keys(m)
    /\ p <= start
    /\ end <= p + Len(TokenAt(mt, p))

\* C22: an inner-loop pass takes the "continue" of the already-replaced
\* test only for a match whose span lies inside a placeholder put into
\* modified_text earlier in the call.
C22_SkipOnlyInsidePlaceholder ==
  (pc = "extract" /\ last.kind = "skip") =>
    InsidePlaceholder(last.before, term_map, last.span[1], last.span[2])

(***************************************************************************)
(* Further properties of restore_terms under RestoreSpec                   *)
(***************************************************************************)
\* The pattern of the branch b of the second loop for the ordinal num
BranchPattern(b, num) ==
  IF b = "numbered" THEN NumberedPattern(num) ELSE SpacedPattern(num)

\* C23: a pass of the second loop that finds a transliterated pattern of
\* its ordinal replaces the first match only, and that match is not the
\* beginning of the transliterated form of a longer ordinal (no digit
\* follows it).
C23_FirstMatchOfOwnOrdinal ==
  (pc = "entries" /\ last.kind \in {"numbered", "spaced"}) =>
    LET before == last.before
        pat    == BranchPattern(last.kind, FirstDigitRun(last.item[1], 1))
        first  == Least({i \in 0..Len(before) : PatMatchEnd(pat, 1, before, i) # -1})
        stop   == PatMatchEnd(pat, 1, before, first)
    IN /\ result = Slice(before, 0, first) \o last.item[2]
                     \o Slice(before, stop, Len(before))
       /\ ~(stop < Len(before) /\ IsDigit(before[stop + 1]))

(***************************************************************************)
(* ServiceSpec: indictrans2_service.main, the one-shot service: it reads   *)
(* all of stdin, handles that one request and exits.  stdin holds the one  *)
(* content read, stdout the JSON objects written, stderr the tracebacks of *)
(* the exceptions nothing caught.                                          *)
(***************************************************************************)
\* A field of a request object: absent, null, a string or a number (s holds
\* the string, or str() of the number)
Absent == [t |-> "absent", s |-> <<>>]

FieldValues ==
  {Absent, [t |-> "null", s |-> <<>>], [t |-> "str", s |-> <<>>],
   [t |-> "str", s |-> <<32>>], [t |-> "str", s |-> <<104, 105>>],
   [t |-> "str", s |-> <<32, 104, 105, 32>>], [t |-> "num", s |-> Str(0)],
   [t |-> "num", s |-> Str(5)]}

LangValues == {Absent, [t |-> "str", s |-> <<>>], [t |-> "str", s |-> <<104, 105>>]}

\* "_error"
ErrorKey == <<95, 101, 114, 114, 111, 114>>

\* What stdin can hold: nothing, text that is not JSON, or a JSON value
RawObject(tx, sl, tl, er) ==
  [kind |-> "object", str |-> <<>>, text |-> tx, src_lang |-> sl,
   tgt_lang |-> tl, err |-> er]

RawOther(kind, str) ==
  [kind |-> kind, str |-> str, text |-> Absent, src_lang |-> Absent,
   tgt_lang |-> Absent, err |-> Absent]

StdinContents ==
  {RawOther(k, <<>>) : k \in {"empty", "invalid", "null", "number", "bool",
                              "array"}}
  \cup {RawOther("string", str) : str \in {<<97>>, <<97>> \o ErrorKey}}
  \cup {RawObject(tx, sl, tl, er) :
          tx \in FieldValues, sl \in LangValues, tl \in LangValues,
          er \in {Absent, [t |-> "str", s |-> <<97>>]}}

\* read_request(): the value main gets for the content raw of stdin
read_request(raw) ==
  IF raw.kind = "empty"
  THEN RawObject(Absent, Absent, Absent, [t |-> "Empty stdin", s |-> <<>>])
  ELSE IF raw.kind = "invalid"
       THEN RawObject(Absent, Absent, Absent,
                      [t |-> "Invalid JSON input", s |-> <<>>])
       ELSE raw

\* str(v or dflt) for a field v of the request object
StrOr(v, dflt) ==
  IF v.t \in {"absent", "null"} \/ v.s = <<>> \/ (v.t = "num" /\ v.s = Str(0))
  THEN dflt
  ELSE v.s

\* main: req, text, src_lang, tgt_lang
ServiceReq == read_request(stdin[1])

ServiceText == Strip(StrOr(ServiceReq.text, <<>>))

\* sys.stdout.write(json.dumps(...)) of main
ServiceWrite(success, error, detail, out) ==
  Append(stdout, [success |-> success, error |-> error, detail |-> detail,
                  translated |-> out])

\* The steps of translate, in order
TranslateSteps ==
  <<"load", "preprocess", "tokenize", "generate", "decode", "postprocess",
    "return">>

StepAfter(p) ==
  IF p = "retry" THEN "decode"
  ELSE TranslateSteps[(CHOOSE k \in 1..Len(TranslateSteps) :
                         TranslateSteps[k] = p) + 1]

\* What postprocess_batch can give for a text
ServiceOutputs == {<<>>, <<84>>}

ServiceInit ==
  /\ LookupIdle
  /\ BatchIdle
  /\ CwdIdle
  /\ TranslateIdle
  /\ GlossaryIdle
  /\ server = "service"
  /\ s_pc = "start"
  /\ stdin \in {<<raw>> : raw \in StdinContents}
  /\ nread = 0
  /\ stdout = <<>>
  /\ model_cache = FALSE
  /\ sidx = 0
  /\ stotal = 0
  /\ exit_code = -1
  /\ nloads = 0
  /\ stderr = <<>>
  /\ translated_sentences = <<>>
  /\ batch_failed = FALSE

\* main returns: the process exits with status 0
ServiceExit(out) ==
  /\ stdout' = out
  /\ s_pc' = "exited"
  /\ exit_code' = 0
  /\ UNCHANGED <<pc, term_map, last, translated, result, evars, rvars, server,
                 stdin, nread, model_cache, sidx, stotal, nloads, stderr,
                 translated_sentences, batch_failed, tvars, lvars,
                 pvars, cvars>>

\* An exception leaves main: the interpreter prints the traceback and the
\* process exits with status 1
ServiceCrash(exception) ==
  /\ stderr' = Append(stderr, [kind |-> "traceback", error |-> exception])
  /\ s_pc' = "exited"
  /\ exit_code' = 1
  /\ UNCHANGED <<pc, term_map, last, translated, result, evars, rvars, server,
                 stdin, nread, stdout, model_cache, sidx, stotal, nloads,
                 translated_sentences, batch_failed, tvars, lvars,
                 pvars, cvars>>

ServiceGoto(p) ==
  /\ s_pc' = p
  /\ UNCHANGED <<pc, term_map, last, translated, result, evars, rvars, server,
                 stdin, stdout, model_cache, sidx, stotal, exit_code, stderr,
                 translated_sentences, batch_failed, tvars, lvars,
                 pvars, cvars>>

\* req = read_request()
ServiceRead ==
  /\ s_pc = "start"
  /\ nread' = 1
  /\ nloads' = nloads
  /\ ServiceGoto("check")

\* "_error" in req holds: the error is written
ServiceErrorWritten ==
  /\ s_pc = "check"
  /\ ServiceReq.kind = "object"
  /\ ServiceReq.err # Absent
  /\ ServiceExit(ServiceWrite(FALSE, "_error", ServiceReq.err, <<>>))

\* "_error" in req raises for a number, null, true or false, and
\* req["_error"] raises for a string that holds "_error"
ServiceErrorTestRaises ==
  /\ s_pc = "check"
  /\ \/ ServiceReq.kind \in {"number", "null", "bool"}
     \/ ServiceReq.kind = "string" /\ Contains(ServiceReq.str, ErrorKey)
  /\ ServiceCrash("TypeError")

\* "_error" in req is false
ServiceNoError ==
  /\ s_pc = "check"
  /\ \/ ServiceReq.kind = "object" /\ ServiceReq.err = Absent
     \/ ServiceReq.kind = "array"
     \/ ServiceReq.kind = "string" /\ ~Contains(ServiceReq.str, ErrorKey)
  /\ nread' = nread
  /\ nloads' = nloads
  /\ ServiceGoto("fields")

\* req.get raises: a list or a string has no get
ServiceGetRaises ==
  /\ s_pc = "fields"
  /\ ServiceReq.kind \in {"array", "string"}
  /\ ServiceCrash("AttributeError")

\* if not text
ServiceMissingText ==
  /\ s_pc = "fields"
  /\ ServiceReq.kind = "object"
  /\ ServiceText = <<>>
  /\ ServiceExit(ServiceWrite(FALSE, "Missing or empty 'text' field", Absent,
                              <<>>))

\* text is not empty: translate is called
ServiceFields ==
  /\ s_pc = "fields"
  /\ ServiceReq.kind = "object"
  /\ ServiceText # <<>>
  /\ nread' = nread
  /\ nloads' = nloads
  /\ ServiceGoto("load")

\* A step of translate returns what the next step needs
ServiceStep ==
  /\ s_pc \in {"load", "preprocess", "tokenize", "generate", "retry",
               "decode", "postprocess"}
  /\ nloads' = IF s_pc = "load" THEN nloads + 1 ELSE nloads
  /\ nread' = nread
  /\ ServiceGoto(StepAfter(s_pc))

\* model.generate raises with "meta" in the message: it is called again
\* with simpler parameters
ServiceGenerateMeta ==
  /\ s_pc = "generate"
  /\ nread' = nread
  /\ nloads' = nloads
  /\ ServiceGoto("retry")

\* A step of translate raises, or returns nothing and translate raises
\* ValueError: main catches it and writes the failure
ServiceTranslateFails ==
  /\ s_pc \in {"load", "preprocess", "tokenize", "generate", "retry",
               "decode", "postprocess"}
  /\ ServiceExit(ServiceWrite(FALSE, "IndicTrans2 translation failed", Absent,
                              <<>>))

\* sys.stdout.write(json.dumps(result))
ServiceResultWritten ==
  /\ s_pc = "return"
  /\ \E out \in ServiceOutputs :
       ServiceExit(ServiceWrite(TRUE, "", Absent, out))

ServiceNext ==
  \/ ServiceRead
  \/ ServiceErrorWritten
  \/ ServiceErrorTestRaises
  \/ ServiceNoError
  \/ ServiceGetRaises
  \/ ServiceMissingText
  \/ ServiceFields
  \/ ServiceStep
  \/ ServiceGenerateMeta
  \/ ServiceTranslateFails
  \/ ServiceResultWritten

ServiceSpec == ServiceInit /\ [][ServiceNext]_vars

\* C25: whatever stdin holds, main has written exactly one JSON result
\* object to stdout when the process ends
C25_ExactlyOneResult ==
  (server = "service" /\ s_pc = "exited") => Len(stdout) = 1

(***************************************************************************)
(* BatchSpec: nllb_server.translate from its units to its result.  The     *)
(* units go to the engine in batches; on a CPU with enough cores the       *)
(* batches are given to a pool of worker threads and collected in the      *)
(* order in which they complete.  A segment of translated_sentences        *)
(* records with its text the position of the unit it was made from.        *)
(***************************************************************************)
MaxBatchUnits == 3

\* The units of the request, after the blank ones were filtered out
BatchUnits(n) == AsList([k \in 1..n |-> <<96 + k>>])

\* (len(units) + batch_size - 1) // batch_size, // rounding down
total_batches(n, size) ==
  IF size > 0 THEN (n + size - 1) \div size
  ELSE (0 - (n + size - 1)) \div (0 - size)

\* range(0, len(units), batch_size) as the 1-based position of the first
\* unit of each batch: it is empty for a negative batch_size
BatchFirsts(n, size) ==
  IF size < 0 THEN <<>>
  ELSE AsList([b \in 1..((n + size - 1) \div size) |-> (b - 1) * size + 1])

\* units[batch_idx:batch_idx + batch_size], as the positions of its units
BatchAt(n, size, first) ==
  AsList([i \in 1..(Min(first + size - 1, n) - first + 1) |-> first + i - 1])

\* use_parallel_batches
use_parallel_batches(device, cpus, total) ==
  device = "cpu" /\ total > 1 /\ cpus >= 4

\* max_workers
max_workers(cpus) == Min(4, cpus \div 2)

\* The segment kept for the unit at position k: the engine's text, the
\* unit's own text, or the empty text the engine gave for it
Segment(k, kind) ==
  [of |-> k,
   text |-> IF kind = "engine" THEN <<84>> \o units[k]
            ELSE IF kind = "original" THEN units[k] ELSE <<>>]

\* The loop over the translations of a batch that batch_decode gave rows
\* translations for: a row that is not blank is kept, a blank row gives
\* the unit's own text
BatchRows(batch, rows) ==
  {AsList([i \in 1..rows |-> Segment(batch[i], f[i])]) :
     f \in [1..rows -> {"engine", "original"}]}

\* The fall back of a batch whose call raised: sentence by sentence, the
\* first translation stripped (it may be empty), or the sentence itself
\* when batch_decode gave nothing or the call raised
BatchFallback(batch) ==
  {AsList([i \in 1..Len(batch) |-> Segment(batch[i], f[i])]) :
     f \in [1..Len(batch) -> {"engine", "original", "empty"}]}

\* process_batch: what it can return for a batch.  batch_decode gives one
\* row per sequence generate returned, at most one per unit of the batch.
process_batch(batch) ==
  UNION {BatchRows(batch, rows) : rows \in 0..Len(batch)}
  \cup BatchFallback(batch)

\* main: batch_size, and load_model: device; cpu_count
BatchRequests ==
  [text : {<<>>}, stream : {FALSE},
   batch_size : {-1, 0, 1, 2, DefaultBatchSize},
   device : {"cpu", "cuda"}, cpu_count : {2, 4, 8}]

BatchInit ==
  /\ LookupIdle
  /\ CwdIdle
  /\ GlossaryIdle
  /\ server = "nllb"
  /\ s_pc = "translate"
  /\ request \in BatchRequests
  /\ \E n \in 1..MaxBatchUnits : units = BatchUnits(n)
  /\ clean_text = <<>>
  /\ text_with_placeholders = <<>>
  /\ events = <<>>
  /\ stdin = <<>>
  /\ nread = 0
  /\ stdout = <<>>
  /\ model_cache = TRUE
  /\ sidx = 0
  /\ stotal = 0
  /\ exit_code = -1
  /\ nloads = 1
  /\ stderr = <<>>
  /\ translated_sentences = <<>>
  /\ batch_failed = FALSE
  /\ batch_results = <<>>
  /\ completed = <<>>

\* The batches of the request
RequestBatches ==
  LET firsts == BatchFirsts(Len(units), request.batch_size)
  IN AsList([b \in 1..Len(firsts) |->
               BatchAt(Len(units), request.batch_size, firsts[b])])

BatchFrame ==
  UNCHANGED <<pc, term_map, last, translated, result, evars, rvars, server,
              stdin, nread, model_cache, exit_code, nloads, stderr,
              batch_failed, request, clean_text, text_with_placeholders,
              units, events, lvars, cvars>>

\* total_batches divides by a batch_size of 0: translate raises, and main
\* writes the failure
BatchSizeZero ==
  /\ s_pc = "translate"
  /\ request.batch_size = 0
  /\ stdout' = Append(stdout, [success |-> FALSE, translated |-> <<>>,
                               error |-> "Translation failed"])
  /\ s_pc' = "returned"
  /\ UNCHANGED <<sidx, stotal, translated_sentences, pvars>>
  /\ BatchFrame

\* The batches are submitted to the pool
BatchSubmit ==
  /\ s_pc = "translate"
  /\ request.batch_size # 0
  /\ LET total == total_batches(Len(units), request.batch_size)
     IN /\ use_parallel_batches(request.device, request.cpu_count, total)
        /\ stotal' = total
        /\ batch_results' =
             AsList([b \in 1..total |-> [state |-> "submitted",
                                         translations |-> <<>>]])
  /\ s_pc' = "collect"
  /\ UNCHANGED <<sidx, stdout, translated_sentences, completed>>
  /\ BatchFrame

\* The batches are handled one after the other
BatchSequential ==
  /\ s_pc = "translate"
  /\ request.batch_size # 0
  /\ LET total == total_batches(Len(units), request.batch_size)
     IN /\ ~use_parallel_batches(request.device, request.cpu_count, total)
        /\ stotal' = total
  /\ s_pc' = "sequential"
  /\ UNCHANGED <<sidx, stdout, translated_sentences, pvars>>
  /\ BatchFrame

\* The batches a worker of the pool is busy with or may take: the first
\* max_workers of those that have not finished
Running ==
  LET open == {b \in 1..Len(batch_results) :
                 batch_results[b].state = "submitted"}
  IN {b \in open :
        Cardinality({c \in open : c < b}) < max_workers(request.cpu_count)}

\* A worker's process_batch returns
WorkerReturns ==
  /\ s_pc = "collect"
  /\ \E b \in Running :
       \E translations \in process_batch(RequestBatches[b]) :
         /\ batch_results' =
              [batch_results EXCEPT ![b] = [state |-> "done",
                                            translations |-> translations]]
         /\ completed' = Append(completed, b)
  /\ UNCHANGED <<s_pc, sidx, stotal, stdout, translated_sentences>>
  /\ BatchFrame

\* A worker's process_batch raises (its write to stderr fails)
WorkerRaises ==
  /\ s_pc = "collect"
  /\ \E b \in Running :
       /\ batch_results' =
            [batch_results EXCEPT ![b] = [state |-> "raised",
                                          translations |-> <<>>]]
       /\ completed' = Append(completed, b)
  /\ UNCHANGED <<s_pc, sidx, stotal, stdout, translated_sentences>>
  /\ BatchFrame

\* as_completed yields a batch: batch_results[idx] = translations, after
\* process_batch was called again for it if the worker's call raised
BatchCollect ==
  /\ s_pc = "collect"
  /\ completed # <<>>
  /\ LET b == Head(completed)
     IN \E translations \in
            IF batch_results[b].state = "raised"
            THEN process_batch(RequestBatches[b])
            ELSE {batch_results[b].translations} :
          batch_results' =
            [batch_results EXCEPT ![b] = [state |-> "collected",
                                          translations |-> translations]]
  /\ completed' = Tail(completed)
  /\ UNCHANGED <<s_pc, sidx, stotal, stdout, translated_sentences>>
  /\ BatchFrame

\* for batch_result in batch_results: if batch_result: extend
RECURSIVE Combined(_)
Combined(rs) ==
  IF rs = <<>> THEN <<>> ELSE Head(rs).translations \o Combined(Tail(rs))

BatchCombine ==
  /\ s_pc = "collect"
  /\ \A b \in 1..Len(batch_results) : batch_results[b].state = "collected"
  /\ translated_sentences' = Combined(batch_results)
  /\ s_pc' = "join"
  /\ UNCHANGED <<sidx, stotal, stdout, pvars>>
  /\ BatchFrame

\* The sequential loop, one batch: translated_sentences.extend
SequentialBatch ==
  /\ s_pc = "sequential"
  /\ sidx < Len(RequestBatches)
  /\ \E translations \in process_batch(RequestBatches[sidx + 1]) :
       translated_sentences' = translated_sentences \o translations
  /\ sidx' = sidx + 1
  /\ UNCHANGED <<s_pc, stotal, stdout, pvars>>
  /\ BatchFrame

\* The sequential loop ends
SequentialDone ==
  /\ s_pc = "sequential"
  /\ sidx = Len(RequestBatches)
  /\ s_pc' = "join"
  /\ UNCHANGED <<sidx, stotal, stdout, translated_sentences, pvars>>
  /\ BatchFrame

\* The result of translate, written by main
BatchReturn ==
  /\ s_pc = "join"
  /\ stdout' =
       Append(stdout,
              IF translated_sentences = <<>>
              THEN [success |-> FALSE, translated |-> <<>>,
                    error |-> "All translation sentences failed"]
              ELSE [success |-> TRUE,
                    translated |->
                      Join(AsList([k \in 1..Len(translated_sentences) |->
                                     translated_sentences[k].text]), <<32>>),
                    error |-> ""])
  /\ s_pc' = "returned"
  /\ UNCHANGED <<sidx, stotal, translated_sentences, pvars>>
  /\ BatchFrame

BatchNext ==
  \/ BatchSizeZero
  \/ BatchSubmit
  \/ BatchSequential
  \/ WorkerReturns
  \/ WorkerRaises
  \/ BatchCollect
  \/ BatchCombine
  \/ SequentialBatch
  \/ SequentialDone
  \/ BatchReturn

BatchSpec == BatchInit /\ [][BatchNext]_vars

\* C26: when translate of nllb_server returns, translated_sentences holds
\* exactly one segment per unit, the k-th made from the k-th unit,
\* whatever the order in which the workers completed and whichever batches
\* fell back to sentence-by-sentence processing
C26_OneSegmentPerUnit ==
  (server = "nllb" /\ s_pc = "returned") =>
    /\ Len(translated_sentences) = Len(units)
    /\ \A k \in 1..Len(units) : translated_sentences[k].of = k

(***************************************************************************)
(* StreamSpec: one streaming or plain call of indictrans2_server (the      *)
(* actions of TranslateSpec) or one call of nllb_server.translate_stream   *)
(* from its units on, with the texts of the lines written.                 *)
(***************************************************************************)
NllbStreamInit ==
  /\ LookupIdle
  /\ CwdIdle
  /\ BatchIdle
  /\ GlossaryIdle
  /\ server = "nllb"
  /\ s_pc = "batches"
  /\ request \in [text : {<<>>}, stream : {TRUE},
                  batch_size : {-1, 0, 1, 2, DefaultBatchSize},
                  device : {"cpu"}, cpu_count : {8}]
  /\ \E n \in 1..MaxBatchUnits : units = BatchUnits(n)
  /\ clean_text = <<>>
  /\ text_with_placeholders = <<>>
  /\ events = <<>>
  /\ stdin = <<>>
  /\ nread = 0
  /\ stdout = <<>>
  /\ model_cache = TRUE
  /\ sidx = 0
  /\ stotal = Len(units)
  /\ exit_code = -1
  /\ nloads = 1
  /\ stderr = <<>>
  /\ translated_sentences = <<>>
  /\ batch_failed = FALSE

\* The chunk lines of the segments segs, written after the lines out
RECURSIVE ChunkLines(_, _)
ChunkLines(out, segs) ==
  IF segs = <<>> THEN out
  ELSE ChunkLines(Append(out, [req |-> 1, success |-> TRUE, type |-> "chunk",
                               index |-> Head(segs).of - 1, total |-> stotal,
                               translated |-> Head(segs).text]),
                  Tail(segs))

\* range(0, len(units), batch_size) raises for a batch_size of 0: main
\* writes the failure
NllbStreamSizeZero ==
  /\ s_pc = "batches"
  /\ request.batch_size = 0
  /\ stdout' = Append(stdout, [req |-> 1, success |-> FALSE, type |-> "none",
                               index |-> 0, total |-> 0, translated |-> <<>>])
  /\ s_pc' = "done"
  /\ UNCHANGED <<sidx, stotal, translated_sentences, pvars>>
  /\ BatchFrame

\* One batch of the loop: a chunk per row batch_decode gave, or, when the
\* batch call raised, a chunk per sentence of the batch
NllbStreamBatch ==
  /\ s_pc = "batches"
  /\ request.batch_size # 0
  /\ sidx < Len(RequestBatches)
  /\ \E segs \in process_batch(RequestBatches[sidx + 1]) :
       /\ translated_sentences' = translated_sentences \o segs
       /\ stdout' = ChunkLines(stdout, segs)
  /\ sidx' = sidx + 1
  /\ UNCHANGED <<s_pc, stotal, pvars>>
  /\ BatchFrame

\* After the loop: the error line when nothing was kept, else the complete
\* line with " ".join(translated_sentences)
NllbStreamEnd ==
  /\ s_pc = "batches"
  /\ request.batch_size # 0
  /\ sidx = Len(RequestBatches)
  /\ stdout' =
       IF translated_sentences = <<>>
       THEN Append(stdout, [req |-> 1, success |-> FALSE, type |-> "error",
                            index |-> 0, total |-> 0, translated |-> <<>>])
       ELSE Emit(TRUE, "complete", 0, stotal,
                 Join(AsList([k \in 1..Len(translated_sentences) |->
                                translated_sentences[k].text]), <<32>>))
  /\ s_pc' = "done"
  /\ UNCHANGED <<sidx, stotal, translated_sentences, pvars>>
  /\ BatchFrame

StreamInit == TranslateInit \/ NllbStreamInit

StreamNext ==
  \/ TranslateNext
  \/ NllbStreamSizeZero
  \/ NllbStreamBatch
  \/ NllbStreamEnd

StreamSpec == StreamInit /\ [][StreamNext]_vars

\* The translated fields of the chunk lines at the positions S of stdout,
\* in index order, joined with single spaces
RECURSIVE ChunksJoined(_)
ChunksJoined(S) ==
  IF S = {} THEN <<>>
  ELSE LET j == CHOOSE c \in S : \A d \in S :
                  \/ stdout[c].index < stdout[d].index
                  \/ stdout[c].index = stdout[d].index /\ c <= d
       IN IF S = {j} THEN stdout[j].translated
          ELSE stdout[j].translated \o <<32>> \o ChunksJoined(S \ {j})

ChunkPositions == {j \in 1..Len(stdout) : stdout[j].type = "chunk"}

\* C27: in a streaming response the translated field of the complete line
\* is the translated fields of the chunk lines of the request joined with
\* single spaces in index order
C27_CompleteIsChunksJoined ==
  \A j \in 1..Len(stdout) :
    stdout[j].type = "complete" =>
      stdout[j].translated = ChunksJoined(ChunkPositions)

\* A complete line after at least two chunk lines, one of them with a
\* restored term
C27_Witness ==
  /\ \E j \in 1..Len(stdout) : stdout[j].type = "complete"
  /\ Cardinality(ChunkPositions) >= 2
  /\ \E c \in ChunkPositions : stdout[c].translated # Strip(units[stdout[c].index + 1])

\* The text translate keeps for unit k (0-based) when the engine does for
\* the unit what the events say it did in this call
PlainKept(k) ==
  LET e == CHOOSE x \in {events[j] : j \in 1..Len(events)} :
             x.unit = k /\ x.op \in {"engine", "bypass"}
  IN IF e.op = "bypass" THEN Strip(units[k + 1])
     ELSE IF e.outcome \in EngineModes
          THEN EngineText(e.outcome, units[k + 1], term_map)
          ELSE units[k + 1]

\* The units of the call that are not blank, as 0-based positions in order
RECURSIVE KeptUnits(_)
KeptUnits(k) ==
  IF k >= Len(units) THEN <<>>
  ELSE (IF Strip(units[k + 1]) = <<>> THEN <<>> ELSE <<k>>) \o KeptUnits(k + 1)

\* What translate returns for the request of this call with the same
\* engine behaviour: the kept texts joined, then restored and
\* post-processed once
PlainResult ==
  LET ks == KeptUnits(0)
  IN post_process_translation(
       restore_terms(Join(AsList([i \in 1..Len(ks) |-> PlainKept(ks[i])]),
                          <<32>>), term_map))

\* C28: the translated text of the complete line of
\* indictrans2_server.translate_stream equals the translated text translate
\* returns for the same request text and the same engine behaviour
C28_StreamEqualsPlain ==
  (server = "indictrans2" /\ request.stream /\ s_pc = "done") =>
    \A j \in 1..Len(stdout) :
      stdout[j].type = "complete" => stdout[j].translated = PlainResult

\* C29: the engine is bypassed only for units that are exactly one
\* placeholder of the term map of the request; every other unit that is
\* not blank goes to the engine
C29_BypassOnlyOwnPlaceholder ==
  \A j \in 1..Len(events) :
    events[j].op = "bypass" =>
      Strip(units[events[j].unit + 1]) \in
        {term_map[i][1] : i \in 1..Len(term_map)}

(***************************************************************************)
(* LoadSpec: indictrans2_server.load_model step by step, called up to      *)
(* MaxLoadCalls times by one caller.  events holds one record per call:    *)
(* the working directory before and after it, whether it returned or       *)
(* raised and where, and what it returned.                                 *)
(***************************************************************************)
MaxLoadCalls == 3

\* What a complete (tokenizer, model, processor) holds
AllParts == {"tokenizer", "model", "weights", "processor"}

\* str(INDIC_MODEL_PATH)
ModelDir == "model"

\* os.chdir(original_cwd) of the except clause left out
KeptCwd(original, current) == current

\* os.chdir(original_cwd): the working directory after it
RestoredCwd(original, current) == original

LoadInit ==
  /\ LookupIdle
  /\ BatchIdle
  /\ GlossaryIdle
  /\ server = "indictrans2"
  /\ s_pc = "idle"
  /\ cwd \in {"work", ModelDir}
  /\ original_cwd = "none"
  /\ loaded = {}
  /\ cache_value = {}
  /\ model_cache = FALSE
  /\ nloads = 0
  /\ sidx = 0
  /\ events = <<>>
  /\ request = [text |-> <<>>, stream |-> FALSE]
  /\ clean_text = <<>>
  /\ text_with_placeholders = <<>>
  /\ units = <<>>
  /\ stdin = <<>>
  /\ nread = 0
  /\ stdout = <<>>
  /\ stotal = 0
  /\ exit_code = -1
  /\ stderr = <<>>
  /\ translated_sentences = <<>>
  /\ batch_failed = FALSE

LoadFrame ==
  UNCHANGED <<pc, term_map, last, translated, result, evars, rvars, server,
              stdin, nread, stdout, stotal, exit_code, stderr,
              translated_sentences, batch_failed, request, clean_text,
              text_with_placeholders, units, lvars, pvars>>

\* The record of the running call closed: how the call ended
Ended(outcome, at, value, dir, cache) ==
  [events EXCEPT ![Len(events)] =
     [@ EXCEPT !.outcome = outcome, !.at = at, !.value = value,
               !.after = dir, !.cache_after = cache]]

\* The caller calls load_model()
LoadCall ==
  /\ s_pc = "idle"
  /\ sidx < MaxLoadCalls
  /\ sidx' = sidx + 1
  /\ events' = Append(events, [op |-> "load_model", unit |-> sidx + 1,
                               outcome |-> "running", at |-> "none",
                               value |-> {}, before |-> cwd, after |-> cwd,
                               cache_before |-> model_cache,
                               cache_after |-> model_cache])
  /\ s_pc' = "cache"
  /\ UNCHANGED <<model_cache, nloads, cvars>>
  /\ LoadFrame

\* if _model_cache is not None: return _model_cache
LoadCached ==
  /\ s_pc = "cache"
  /\ model_cache
  /\ events' = Ended("returned", "cache", cache_value, cwd, model_cache)
  /\ s_pc' = "idle"
  /\ UNCHANGED <<sidx, model_cache, nloads, cvars>>
  /\ LoadFrame

\* The model directory or a vocabulary file is not there: FileNotFoundError
\* before the working directory is changed
LoadPathMissing ==
  /\ s_pc = "cache"
  /\ ~model_cache
  /\ \E what \in {"model_missing", "vocabulary_missing"} :
       events' = Ended("raised", what, {}, cwd, model_cache)
  /\ s_pc' = "idle"
  /\ UNCHANGED <<sidx, model_cache, nloads, cvars>>
  /\ LoadFrame

\* original_cwd = os.getcwd(); os.chdir(str(INDIC_MODEL_PATH))
LoadChdir ==
  /\ s_pc = "cache"
  /\ ~model_cache
  /\ original_cwd' = cwd
  /\ cwd' = ModelDir
  /\ loaded' = {}
  /\ s_pc' = "tokenizer"
  /\ UNCHANGED <<sidx, events, model_cache, nloads, cache_value>>
  /\ LoadFrame

\* The steps of the try block: where each goes on and what it binds
LoadSteps ==
  {<<"tokenizer", "model", {"tokenizer"}>>,
   <<"tokenizer_again", "model", {"tokenizer"}>>,
   <<"model", "to_empty", {"model"}>>,
   <<"model", "to_cpu", {"model"}>>,
   <<"to_empty", "weights", {}>>,
   <<"weights", "load_state_dict", {}>>,
   <<"load_state_dict", "eval", {"weights"}>>,
   <<"to_cpu", "eval", {"weights"}>>,
   <<"eval", "processor", {}>>,
   <<"processor", "restore", {"processor"}>>}

\* A step of the try block returns
LoadStep ==
  /\ \E st \in LoadSteps :
       /\ s_pc = st[1]
       /\ s_pc' = st[2]
       /\ loaded' = loaded \cup st[3]
  /\ UNCHANGED <<sidx, events, model_cache, nloads, cwd, original_cwd,
                 cache_value>>
  /\ LoadFrame

\* The first AutoTokenizer.from_pretrained raises: it is called again
\* without use_fast
LoadTokenizerAgain ==
  /\ s_pc = "tokenizer"
  /\ s_pc' = "tokenizer_again"
  /\ UNCHANGED <<sidx, events, model_cache, nloads, cvars>>
  /\ LoadFrame

\* model.safetensors is not there: os.chdir(original_cwd), then
\* FileNotFoundError inside the try block
LoadWeightsMissing ==
  /\ s_pc = "weights"
  /\ cwd' = RestoredCwd(original_cwd, cwd)
  /\ s_pc' = "except"
  /\ events' = [events EXCEPT ![Len(events)].at = "weights_missing"]
  /\ UNCHANGED <<sidx, model_cache, nloads, original_cwd, loaded,
                 cache_value>>
  /\ LoadFrame

\* A step of the try block raises
LoadStepRaises ==
  /\ s_pc \in {"tokenizer_again", "model", "to_empty", "weights",
               "load_state_dict", "to_cpu", "eval", "processor"}
  /\ events' = [events EXCEPT ![Len(events)].at = s_pc]
  /\ s_pc' = "except"
  /\ UNCHANGED <<sidx, model_cache, nloads, cvars>>
  /\ LoadFrame

\* except Exception: os.chdir(original_cwd); raise
LoadExcept ==
  /\ s_pc = "except"
  /\ cwd' = RestoredCwd(original_cwd, cwd)
  /\ loaded' = {}
  /\ events' = Ended("raised", events[Len(events)].at, {}, cwd', model_cache)
  /\ s_pc' = "idle"
  /\ UNCHANGED <<sidx, model_cache, nloads, original_cwd, cache_value>>
  /\ LoadFrame

\* os.chdir(original_cwd) at the end of the try block
LoadRestore ==
  /\ s_pc = "restore"
  /\ cwd' = RestoredCwd(original_cwd, cwd)
  /\ s_pc' = "store"
  /\ UNCHANGED <<sidx, events, model_cache, nloads, original_cwd, loaded,
                 cache_value>>
  /\ LoadFrame

\* _model_cache = (tokenizer, model, processor); return _model_cache
LoadStore ==
  /\ s_pc = "store"
  /\ model_cache' = TRUE
  /\ cache_value' = loaded
  /\ nloads' = nloads + 1
  /\ loaded' = {}
  /\ events' = Ended("returned", "store", cache_value', cwd, model_cache')
  /\ s_pc' = "idle"
  /\ UNCHANGED <<sidx, cwd, original_cwd>>
  /\ LoadFrame

LoadNext ==
  \/ LoadCall
  \/ LoadCached
  \/ LoadPathMissing
  \/ LoadChdir
  \/ LoadStep
  \/ LoadTokenizerAgain
  \/ LoadWeightsMissing
  \/ LoadStepRaises
  \/ LoadExcept
  \/ LoadRestore
  \/ LoadStore

LoadSpec == LoadInit /\ [][LoadNext]_vars

\* The calls of load_model that have ended
EndedCalls == {j \in 1..Len(events) : events[j].outcome # "running"}

\* C30: every call of load_model that has ended, by returning or by
\* raising, left the working directory as it was before the call; a call
\* that raised left the model cache unset; and every call that returned
\* gave a complete tokenizer, model and processor
C30_LoadLeavesCwdAndCache ==
  server = "indictrans2" =>
    /\ \A j \in EndedCalls :
         /\ events[j].op = "load_model" => events[j].after = events[j].before
         /\ events[j].outcome = "raised" => ~events[j].cache_after
         /\ events[j].outcome = "returned" => events[j].value = AllParts
    /\ (s_pc = "idle" /\ Len(events) > 0) => cwd = events[1].before
    /\ model_cache <=> cache_value # {}

\* A call that raised after the model was bound, from another directory
\* than the model's, followed by a call that returned
C30_Witness ==
  /\ server = "indictrans2"
  /\ \E i, j \in EndedCalls :
       /\ i < j
       /\ events[i].outcome = "raised"
       /\ events[i].at \in {"to_empty", "load_state_dict", "eval", "processor"}
       /\ events[i].before # ModelDir
       /\ events[j].outcome = "returned"

====
